---- MODULE Spec2Model ----
(***************************************************************************)
(* Model of the SolanaSniper position lifecycle:                           *)
(*   src/execution/trade_manager.py  (CircuitBreaker, TradeManager)        *)
(*   src/data/api_client.py          (APIClient.resilient_request)         *)
(*   src/strategy/exit_strategies.py (exit strategies)                     *)
(* Time is counted in whole units; ratios are integers in hundredths       *)
(* (100 = 1.0); prices are integers in hundredths of the quote currency.   *)
(***************************************************************************)
EXTENDS Integers, Sequences, FiniteSets, TLC

VARIABLES now, circuit_breaker, last, request_cache, rr, ssp_in, ssp_out,
          active_positions, trade_history, wallet_tokens, tx_status,
          sell_queue, sr, cs, sb, bot

vars == <<now, circuit_breaker, last, request_cache, rr, ssp_in, ssp_out,
          active_positions, trade_history, wallet_tokens, tx_status,
          sell_queue, sr, cs, sb, bot>>

(* the state of each component; rrState holds the loops that are modelled
   pass by pass: the client's retry loop, the sell helper's retry loop,
   the chunk loop, the buy's retry loop and the control loop of main.py *)
cbState == <<circuit_breaker, last>>
rrState == <<request_cache, rr, sr, cs, sb, bot>>
sspState == <<ssp_in, ssp_out>>
tmState == <<active_positions, trade_history, sell_queue>>
ledgerState == <<wallet_tokens, tx_status>>

(* ------------------------------------------------------------------ *)
(* Bounds of the exploration                                          *)
(* ------------------------------------------------------------------ *)
MaxTime == 5
MaxFailures == 4

(* ------------------------------------------------------------------ *)
(* CircuitBreaker.__init__ parameters (trade_manager.py:44-58)        *)
(* ------------------------------------------------------------------ *)
FailureThreshold == 2
TimeWindow == 2
PauseDuration == 3

NoTime == -1
NoReason == "None"
Categories == {"buy", "sell", "api", "rpc"}

CircuitBreakerInit ==
    [failures |-> [c \in Categories |-> << >>],
     is_paused |-> FALSE,
     pause_start_time |-> NoTime,
     pause_reason |-> NoReason]

(* the failures of one log whose timestamp is after the cutoff *)
RecentFailures(log, t) ==
    {i \in DOMAIN log : log[i] > t - TimeWindow}

(* CircuitBreaker._trigger_pause: returns <<breaker, alerts emitted>> *)
TriggerPause(cb, failure_type, t) ==
    IF cb.is_paused
    THEN <<cb, {}>>
    ELSE <<[cb EXCEPT !.is_paused = TRUE,
                      !.pause_start_time = t,
                      !.pause_reason = failure_type],
           {"CIRCUIT_BREAKER_TRIGGERED"}>>

(* variant that counts the recent failures of all four categories together *)
CheckCircuitBreaker_AllCategories(cb, failure_type, t) ==
    IF Cardinality(RecentFailures(cb.failures["buy"], t))
         + Cardinality(RecentFailures(cb.failures["sell"], t))
         + Cardinality(RecentFailures(cb.failures["api"], t))
         + Cardinality(RecentFailures(cb.failures["rpc"], t)) >= FailureThreshold
    THEN TriggerPause(cb, failure_type, t)
    ELSE <<cb, {}>>

(* CircuitBreaker._check_circuit_breaker *)
CheckCircuitBreaker(cb, failure_type, t) ==
    IF Cardinality(RecentFailures(cb.failures[failure_type], t)) >= FailureThreshold
    THEN TriggerPause(cb, failure_type, t)
    ELSE <<cb, {}>>

(* CircuitBreaker.record_buy_failure / record_sell_failure /
   record_api_failure / record_rpc_failure *)
RecordFailure(cb, failure_type, t) ==
    CheckCircuitBreaker(
        [cb EXCEPT !.failures[failure_type] = Append(@, t)], failure_type, t)

(* CircuitBreaker.check_if_paused: returns <<breaker, outcome, alerts>>.
   On expiry the start time is cleared first and the log record is then
   built from (time.time() - self.pause_start_time): with the field
   already None that subtraction raises TypeError, and the statements
   after it (the reset alert, clearing the reason, return False) are
   never reached. *)
CheckIfPaused(cb, t) ==
    IF ~cb.is_paused
    THEN <<cb, "False", {}>>
    ELSE IF t - cb.pause_start_time > PauseDuration
         THEN LET cb1 == [cb EXCEPT !.is_paused = FALSE,
                                    !.pause_start_time = NoTime]
              IN IF cb1.pause_start_time = NoTime
                 THEN <<cb1, "TypeError", {}>>
                 ELSE <<[cb1 EXCEPT !.pause_reason = NoReason], "False",
                        {"CIRCUIT_BREAKER_RESET"}>>
         ELSE <<cb, "True", {}>>

(* number of failure records held by the breaker, all categories *)
TotalFailures(cb) ==
    Len(cb.failures["buy"]) + Len(cb.failures["sell"])
        + Len(cb.failures["api"]) + Len(cb.failures["rpc"])

(* ------------------------------------------------------------------ *)
(* APIClient (api_client.py)                                          *)
(* ------------------------------------------------------------------ *)
MaxRetries == 5
CacheTtl == 5

NoKey == "None"
CacheKeys == {"price"}
NoData == -1
Values == {1, 2}

(* what one invocation of the wrapped function does *)
RetryableKinds == {"timeout", "connection", "http_5xx", "exception"}
FailureKinds == RetryableKinds \cup {"http_4xx"}
Outcomes ==
    [kind : {"ok"}, val : Values \cup {NoData}]
        \cup [kind : FailureKinds, val : {NoData}]

RequestCacheInit ==
    [k \in CacheKeys |-> [present |-> FALSE, data |-> NoData, timestamp |-> 0]]

RRIdle ==
    [pc |-> "idle", key |-> NoKey, attempt |-> 0, calls |-> 0, sleeps |-> 0,
     fails |-> 0, final |-> "none", value |-> NoData, hit |-> FALSE,
     stale |-> FALSE, result |-> NoData]

(* variant whose loop runs one iteration short *)
InRange_OneShort(attempt) == attempt < MaxRetries - 1

(* for attempt in range(self.max_retries) *)
InRange(attempt) == attempt < MaxRetries

(* if attempt < self.max_retries - 1: sleep and continue *)
RetrySleeps(attempt) == attempt < MaxRetries - 1

(* the cache check at the head of resilient_request *)
CacheHit(cache, key, t) ==
    /\ key # NoKey
    /\ cache[key].present
    /\ t - cache[key].timestamp < CacheTtl

(* the except clauses of the retry loop: Timeout, ConnectionError,
   HTTPError, and Exception for everything else *)
Caught_RequestsOnly(kind) ==
    kind \in {"timeout", "connection", "http_4xx", "http_5xx"}

Caught(kind) ==
    \/ kind \in {"timeout", "connection", "http_4xx", "http_5xx"}
    \/ kind = "exception"

(* the code after the retry loop: stale cache entry or None *)
AfterLoop_FreshOnly(cache, r) ==
    IF r.key # NoKey /\ cache[r.key].present
          /\ now - cache[r.key].timestamp < CacheTtl
    THEN [r EXCEPT !.pc = "done", !.stale = TRUE, !.result = cache[r.key].data]
    ELSE [r EXCEPT !.pc = "done", !.result = NoData]

AfterLoop(cache, r) ==
    IF r.key # NoKey /\ cache[r.key].present
    THEN [r EXCEPT !.pc = "done", !.stale = TRUE, !.result = cache[r.key].data]
    ELSE [r EXCEPT !.pc = "done", !.result = NoData]

(* ------------------------------------------------------------------ *)
(* Exit strategies (exit_strategies.py).  Prices are integers, ratios  *)
(* and profit thresholds are in hundredths, dollar amounts are         *)
(* multiples of 100 so that every product below is exact.              *)
(* ------------------------------------------------------------------ *)
TARGET_PROFIT == 50
STOP_LOSS == 10

NoPrice == 0

Max(a, b) == IF a >= b THEN a ELSE b
Min(a, b) == IF a <= b THEN a ELSE b
Abs(a) == IF a >= 0 THEN a ELSE 0 - a

Decision(e, reason, ratio) == [exit |-> e, reason |-> reason, ratio |-> ratio]
Hold == Decision(FALSE, "hold", 0)

(* pnl_percent = (current_price - entry_price) / entry_price compared
   with pct/100, cross-multiplied (entry_price > 0) *)
PnlAtLeast(entry, cur, pct) == (cur - entry) * 100 >= pct * entry
PnlAtMost(entry, cur, pct) == (cur - entry) * 100 <= pct * entry
PnlPositive(entry, cur) == cur - entry > 0

(* liquidity_factor = min(1.0, initial_liquidity / 50000), in thousandths *)
LiquidityFactor(initial_liquidity) == Min(1000, initial_liquidity \div 50)

(* position['highest_price'] update of TrailingStopStrategy.should_exit *)
UpdateHighest_Latest(pos, cur) ==
    [pos EXCEPT !.highest_price =
        IF pos.highest_price = NoPrice
        THEN Max(pos.entry_price, cur)
        ELSE cur]

UpdateHighest(pos, cur) ==
    [pos EXCEPT !.highest_price =
        IF pos.highest_price = NoPrice
        THEN Max(pos.entry_price, cur)
        ELSE Max(pos.highest_price, cur)]

(* TrailingStopStrategy.should_exit with thresholds in hundredths:
   adaptive_stop_loss = sl * (0.5 + 0.5 lf), adaptive_trailing =
   td * (0.7 + 0.3 lf), adaptive_activation = ap * (0.8 + 0.2 lf).
   Returns <<decision, position>>. *)
TrailingStop(pos, cur, sl, td, ap) ==
    IF pos.entry_price = 0 \/ cur <= 0
    THEN <<Hold, pos>>
    ELSE LET lf == LiquidityFactor(pos.initial_liquidity)
             e == pos.entry_price
             p1 == UpdateHighest(pos, cur)
         IN IF (cur - e) * 200000 <= 0 - sl * (1000 + lf) * e
            THEN <<Decision(TRUE, "adaptive_stop_loss", 100), p1>>
            ELSE IF /\ (cur - e) * 1000000 >= ap * (8000 + 2 * lf) * e
                    /\ cur * 1000000
                         <= p1.highest_price * (1000000 - td * (7000 + 3 * lf))
                 THEN <<Decision(TRUE, "adaptive_trailing_stop", 100), p1>>
                 ELSE <<Hold, p1>>

(* ScaledExitStrategy.exit_levels: (profit threshold, cumulative target) *)
ExitLevels == <<<<20, 25>>, <<50, 50>>, <<100, 100>>>>

(* f"scaled_exit_{profit_threshold*100:.0f}%" *)
ScaledReason(threshold) == "scaled_exit_" \o ToString(threshold) \o "%"

(* the tier loop of ScaledExitStrategy.should_exit from tier i on *)
RECURSIVE ScanLevels(_, _, _, _)
RECURSIVE ScanLevels_WholeTarget(_, _, _, _)
ScanLevels_WholeTarget(levels, i, pos, cur) ==
    IF i > Len(levels)
    THEN Hold
    ELSE IF /\ PnlAtLeast(pos.entry_price, cur, levels[i][1])
            /\ levels[i][2] - pos.total_sold_ratio > 1
         THEN Decision(TRUE, ScaledReason(levels[i][1]), levels[i][2])
         ELSE ScanLevels_WholeTarget(levels, i + 1, pos, cur)

ScanLevels(levels, i, pos, cur) ==
    IF i > Len(levels)
    THEN Hold
    ELSE IF /\ PnlAtLeast(pos.entry_price, cur, levels[i][1])
            /\ levels[i][2] - pos.total_sold_ratio > 1
         THEN Decision(TRUE, ScaledReason(levels[i][1]),
                       levels[i][2] - pos.total_sold_ratio)
         ELSE ScanLevels(levels, i + 1, pos, cur)

(* ScaledExitStrategy.should_exit of a strategy built with exit_levels *)
ScaledExitWith_FullStop(levels, pos, cur) ==
    IF pos.entry_price = 0 \/ cur <= 0
    THEN <<Hold, pos>>
    ELSE LET d == ScanLevels(levels, 1, pos, cur)
         IN IF d.exit
            THEN <<d, pos>>
            ELSE IF PnlAtMost(pos.entry_price, cur, 0 - STOP_LOSS)
                 THEN <<Decision(TRUE, "stop_loss", 100), pos>>
                 ELSE <<Hold, pos>>

ScaledExitWith(levels, pos, cur) ==
    IF pos.entry_price = 0 \/ cur <= 0
    THEN <<Hold, pos>>
    ELSE LET d == ScanLevels(levels, 1, pos, cur)
         IN IF d.exit
            THEN <<d, pos>>
            ELSE IF PnlAtMost(pos.entry_price, cur, 0 - STOP_LOSS)
                 THEN <<Decision(TRUE, "stop_loss", 100 - pos.total_sold_ratio),
                        pos>>
                 ELSE <<Hold, pos>>

(* ScaledExitStrategy.should_exit of the manager's strategy *)
ScaledExit(pos, cur) == ScaledExitWith(ExitLevels, pos, cur)

(* TimeBasedExitStrategy.should_exit; held is the holding time in minutes *)
TimeBased(pos, cur, held, max_hold_minutes) ==
    IF pos.entry_price = 0 \/ cur <= 0
    THEN <<Hold, pos>>
    ELSE LET e == pos.entry_price
         IN IF PnlAtLeast(e, cur, TARGET_PROFIT)
            THEN <<Decision(TRUE, "take_profit", 100), pos>>
            ELSE IF /\ held > 5
                    /\ PnlPositive(e, cur)
                    /\ held > 5 /\ PnlAtMost(e, cur, -5)
                 THEN <<Decision(TRUE, "tightened_stop", 100), pos>>
                 ELSE IF /\ held > 5
                         /\ PnlPositive(e, cur)
                         /\ held > 15 /\ PnlAtMost(e, cur, -2)
                      THEN <<Decision(TRUE, "very_tight_stop", 100), pos>>
                      ELSE IF PnlAtMost(e, cur, 0 - STOP_LOSS)
                           THEN <<Decision(TRUE, "stop_loss", 100), pos>>
                           ELSE IF held > max_hold_minutes
                                THEN <<Decision(TRUE, "time_limit", 100), pos>>
                                ELSE <<Hold, pos>>

(* AdaptiveExitStrategy.should_exit: trailing stop (10%, 3%, 15%) first,
   then the time-based strategy with max_hold_minutes = 25 *)
AdaptiveExit(pos, cur, held) ==
    LET r == TrailingStop(pos, cur, 10, 3, 15)
    IN IF r[1].exit THEN r ELSE TimeBased(r[2], cur, held, 25)

StrategyNames == {"trailing", "scaled", "time_based", "adaptive"}

(* ExitStrategyManager.get_exit_decision *)
GetExitDecision(pos, cur, held) ==
    CASE pos.exit_strategy = "trailing" -> TrailingStop(pos, cur, 10, 5, 10)
      [] pos.exit_strategy = "scaled" -> ScaledExit(pos, cur)
      [] pos.exit_strategy = "time_based" -> TimeBased(pos, cur, held, 30)
      [] OTHER -> AdaptiveExit(pos, cur, held)

(* ------------------------------------------------------------------ *)
(* TradeManager.should_sell_position                                  *)
(* ------------------------------------------------------------------ *)

(* thresholds fixed at entry (execute_sniper_buy) *)
LiquidityDropThreshold(initial_liquidity) ==
    Max(5000, (initial_liquidity * 3) \div 10)
VolumeDropThreshold(initial_volume) ==
    Max(10000, (initial_volume * 2) \div 10)

(* pnl_percent < -min(0.05, abs(pnl_percent) * 0.5) *)
MomentumDrop(entry, cur) ==
    LET d == cur - entry
    IN IF Abs(d) * 100 <= 10 * entry
       THEN 2 * d < 0 - Abs(d)
       ELSE d * 100 < 0 - 5 * entry

(* variant that asks the exit strategy before the liquidity check *)
ShouldSellPosition_StrategyFirst(pos, price, liquidity, volume, held) ==
    IF pos.entry_price = 0
    THEN <<Decision(TRUE, "missing_data", 100), pos>>
    ELSE IF price = NoData \/ price = 0
    THEN <<Decision(FALSE, "price_data_unavailable", 0), pos>>
    ELSE LET r == GetExitDecision(pos, price, held)
             current_liquidity ==
                 IF liquidity = NoData
                 THEN pos.initial_liquidity \div 2
                 ELSE liquidity
         IN IF r[1].exit
            THEN r
            ELSE IF current_liquidity < pos.liquidity_drop_threshold
                 THEN <<Decision(TRUE, "liquidity_drop", 100), r[2]>>
                 ELSE <<Hold, r[2]>>

(* price, liquidity, volume: what resilient_request returned for the three
   fetches (NoData = None); held: minutes since entry.
   Returns <<decision, position>>. *)
ShouldSellPosition(pos, price, liquidity, volume, held) ==
    IF pos.entry_price = 0
    THEN <<Decision(TRUE, "missing_data", 100), pos>>
    ELSE IF price = NoData \/ price = 0
    THEN <<Decision(FALSE, "price_data_unavailable", 0), pos>>
    ELSE LET current_liquidity ==
                 IF liquidity = NoData
                 THEN pos.initial_liquidity \div 2
                 ELSE liquidity
         IN IF current_liquidity < pos.liquidity_drop_threshold
            THEN <<Decision(TRUE, "liquidity_drop", 100), pos>>
            ELSE LET r == GetExitDecision(pos, price, held)
                 IN IF r[1].exit
                    THEN r
                    ELSE IF MomentumDrop(pos.entry_price, price) /\ held > 5
                         THEN LET volume_24h ==
                                      IF volume = NoData
                                      THEN pos.initial_volume_24h
                                      ELSE volume
                              IN IF volume_24h < pos.volume_drop_threshold
                                 THEN <<Decision(TRUE, "low_activity", 100),
                                        r[2]>>
                                 ELSE <<Hold, r[2]>>
                         ELSE <<Hold, r[2]>>

(* ------------------------------------------------------------------ *)
(* Inputs of one should_sell_position evaluation                      *)
(* ------------------------------------------------------------------ *)
EntryPrices == {0, 100}
InitialLiquidities == {0, 8000, 50000}
InitialVolumes == {5000, 60000}
SoldRatios == {0, 25, 100}
HighestPrices == {NoPrice, 130}
PriceResults == {NoData, 0, 85, 97, 125, 155}
LiquidityResults == {NoData, 0, 2000, 60000}
VolumeResults == {NoData, 0, 60000}
HeldMinutes == {1, 6, 16, 31}

(* the fields of a position that the monitoring decision reads, as
   execute_sniper_buy records them *)
MonitoredPosition(entry_price, liq, vol, sold, highest, strategy) ==
    [entry_price |-> entry_price,
     initial_liquidity |-> liq,
     initial_volume_24h |-> vol,
     liquidity_drop_threshold |-> LiquidityDropThreshold(liq),
     volume_drop_threshold |-> VolumeDropThreshold(vol),
     total_sold_ratio |-> sold,
     highest_price |-> highest,
     exit_strategy |-> strategy]

SspInputs ==
    {[position |-> MonitoredPosition(e, l, v, sd, h, st),
      price |-> p, liquidity |-> cl, volume |-> cv, held |-> m] :
        e \in EntryPrices, l \in InitialLiquidities, v \in InitialVolumes,
        sd \in SoldRatios, h \in HighestPrices, st \in StrategyNames,
        p \in PriceResults, cl \in LiquidityResults, cv \in VolumeResults,
        m \in HeldMinutes}

SspNoInput ==
    [position |-> MonitoredPosition(0, 0, 5000, 0, NoPrice, "adaptive"),
     price |-> NoData, liquidity |-> NoData, volume |-> NoData, held |-> 1]

NoDecision == [done |-> FALSE, decision |-> Hold, strategy |-> Hold]

Tokens == {"A"}

(* what the last call did, where it was a call of the breaker or of an
   entry point that consults it: its name, its argument, what check_if_paused
   answered ("none" where the call returned before asking, or does not ask)
   and the alerts it sent *)
Called(op, arg, result, alerts) ==
    [op |-> op, arg |-> arg, result |-> result, alerts |-> alerts]

NoOp == Called("none", "none", "none", {})

(* ------------------------------------------------------------------ *)
(* TradeManager: positions, retry loops, confirmation and sells       *)
(* ------------------------------------------------------------------ *)
MAX_RETRIES == 2
DUST_REDUCTION_FACTOR == 995
CHUNK_SIZE_RATIO == 25
MIN_CHUNK_SIZE == 50
LIQUIDITY_DEPTH_MULTIPLIER == 10
BUY_AMOUNT_USD == 10
BASE_SLIPPAGE_BPS == 100
SLIPPAGE_STEP_BPS == 100
MAX_SLIPPAGE_BPS == 150

(* native-asset amounts, in thousandths of SOL *)
FEE_BUFFER_SOL == 10
MIN_RESIDUAL_SOL == 5
ATA_RENT_SOL == 2
MIN_BUY_SIZE_SOL == 10

(* bounds of the exploration *)
MaxPositions == 2
MaxHistory == 3
MaxChunks == 2
MaxTradeFailures == 2
MinutesPerTick == 10

(* token_data handed to execute_sniper_buy, and what a buy quote promises *)
TokenData ==
    {[price |-> 100, liquidity |-> 50000, volume_24h |-> 60000],
     [price |-> 100, liquidity |-> 0, volume_24h |-> 60000]}
QuoteOutAmount == 400

(* int(x * DUST_REDUCTION_FACTOR) *)
DustReduced(x) == (x * DUST_REDUCTION_FACTOR) \div 1000

(* the position dict built by execute_sniper_buy *)
NewPosition(t, td, expected, time, tx_id) ==
    [token_address |-> t,
     tx_id |-> tx_id,
     entry_price |-> td.price,
     entry_time |-> time,
     status |-> "pending",
     expected_tokens |-> expected,
     remaining_tokens |-> expected,
     total_sold_ratio |-> 0,
     confirmation_attempts |-> 0,
     initial_liquidity |-> td.liquidity,
     initial_volume_24h |-> td.volume_24h,
     liquidity_drop_threshold |-> LiquidityDropThreshold(td.liquidity),
     volume_drop_threshold |-> VolumeDropThreshold(td.volume_24h),
     highest_price |-> NoPrice,
     exit_strategy |-> "adaptive",
     failure_reason |-> "none"]

(* the value of the active map for a token that has no entry *)
NoPosition ==
    [NewPosition("none", [price |-> 0, liquidity |-> 0, volume_24h |-> 0],
                 0, 0, 0) EXCEPT !.status = "none"]

(* {**position, 'action': action}: the snapshot appended to trade_history,
   of which the model keeps the transaction id, the action, the status and
   the failure reason *)
HistoryRecord(pos, action) ==
    [tx_id |-> pos.tx_id, action |-> action, status |-> pos.status,
     failure_reason |-> pos.failure_reason]

(* the manager's data as one value: the active map token -> position, the
   history, the breaker, the on-chain token balances and the alerts sent by
   the call *)
Manager ==
    [active |-> active_positions, history |-> trade_history,
     cb |-> circuit_breaker, tokens |-> wallet_tokens, alerts |-> {}]

(* what a call leaves: the manager's data, the result it returns, what
   check_if_paused answered, the quotes requested and swaps submitted *)
Returned(m, result, quotes, submits) ==
    [m |-> m, result |-> result, gate |-> "none",
     quotes |-> quotes, submits |-> submits]

(* circuit_breaker.record_<category>_failure as called by the manager and by
   JupiterAPI._make_request *)
RecordIn(m, category) ==
    LET r == RecordFailure(m.cb, category, now)
    IN [m EXCEPT !.cb = r[1], !.alerts = @ \cup r[2]]

(* "if self.circuit_breaker and self.circuit_breaker.check_if_paused():
    return {error: Trading paused ...}" at the head of an entry point; the
   TypeError of an expired pause leaves the call through the caller *)
WithGate_Open(m, proceed) == [proceed EXCEPT !.gate = "False"]

WithGate(m, proceed) ==
    LET r == CheckIfPaused(m.cb, now)
    IN IF r[2] = "True"
       THEN [Returned(m, "paused", 0, 0) EXCEPT !.gate = "True"]
       ELSE IF r[2] = "TypeError"
            THEN [Returned([m EXCEPT !.cb = r[1]], "TypeError", 0, 0)
                    EXCEPT !.gate = "TypeError"]
            ELSE [proceed EXCEPT !.gate = "False"]

(* what one attempt of a buy or sell retry loop runs into *)
SellAttemptOutcomes ==
    {"ok", "quote_fail", "high_impact", "stale_quote", "tx_fail", "exception"}
BuyAttemptOutcomes ==
    {"ok", "quote_fail", "invalid_quote", "stale_quote", "no_swap_tx",
     "sign_fail", "send_error", "no_tx_id", "exception"}

(* the outcome sequences a loop of n attempts can consume: attempts after a
   successful one are never made *)
RECURSIVE AttemptSeqs(_, _)
AttemptSeqs(kinds, n) ==
    IF n = 0
    THEN {<< >>}
    ELSE {<<"ok">>} \cup
         {<<k>> \o rest : k \in kinds \ {"ok"}, rest \in AttemptSeqs(kinds, n - 1)}

(* if attempt < MAX_RETRIES - 1: continue *)
MoreAttempts(attempt) == attempt < MAX_RETRIES - 1

SellResult(tx, err, m, quotes, submits) ==
    [tx |-> tx, err |-> err, m |-> m, quotes |-> quotes, submits |-> submits]

(* max_impact = 5.0 + (attempt * 2.0), in hundredths of a percent *)
MaxImpact_Flat(attempt) == 500

MaxImpact(attempt) == 500 + attempt * 200

(* what one attempt of the sell loop is given: whether the quote request
   answered, the quote's price impact, whether the quote is older than the
   freshness limit, and whether the swap is built, signed and sent *)
AttemptInput(quoted, impact, stale, sent) ==
    [quoted |-> quoted, impact |-> impact, stale |-> stale, sent |-> sent]

(* TradeManager._validate_sell_quote *)
ValidateSellQuote(in, attempt) ==
    IF ~in.quoted
    THEN "no_quote"
    ELSE IF in.impact > MaxImpact(attempt)
         THEN "high_impact"
         ELSE IF in.stale THEN "stale_quote" ELSE "valid"

(* what the attempt runs into *)
AttemptOutcome(in, attempt) ==
    IF ~in.quoted
    THEN "quote_fail"
    ELSE IF ValidateSellQuote(in, attempt) # "valid"
         THEN ValidateSellQuote(in, attempt)
         ELSE IF in.sent THEN "ok" ELSE "tx_fail"

(* TradeManager._execute_sell_with_retry from attempt a on, with the
   per-attempt helpers _get_sell_quote_with_retry, _validate_sell_quote and
   _execute_sell_transaction folded in.  A failed quote request records a
   data-source failure (JupiterAPI._make_request). *)
RECURSIVE SellWithRetry(_, _, _, _, _, _)
SellWithRetry(m, outs, a, max_retries, quotes, submits) ==
    IF a >= max_retries
    THEN SellResult(FALSE, "exhausted", m, quotes, submits)
    ELSE LET o == outs[a + 1]
         IN CASE o = "ok" ->
                   SellResult(TRUE, "none", m, quotes + 1, submits + 1)
              [] o = "quote_fail" ->
                   IF MoreAttempts(a)
                   THEN SellWithRetry(RecordIn(m, "api"), outs, a + 1,
                                      max_retries, quotes + 1, submits)
                   ELSE SellResult(FALSE, "quote", RecordIn(m, "api"),
                                   quotes + 1, submits)
              [] o = "high_impact" ->
                   IF MoreAttempts(a)
                   THEN SellWithRetry(m, outs, a + 1, max_retries,
                                      quotes + 1, submits)
                   ELSE SellResult(FALSE, "high_impact", m, quotes + 1, submits)
              [] o = "stale_quote" ->
                   IF MoreAttempts(a)
                   THEN SellWithRetry(m, outs, a + 1, max_retries,
                                      quotes + 1, submits)
                   ELSE SellResult(FALSE, "stale", m, quotes + 1, submits)
              [] o = "tx_fail" ->
                   IF MoreAttempts(a)
                   THEN SellWithRetry(m, outs, a + 1, max_retries,
                                      quotes + 1, submits + 1)
                   ELSE SellResult(FALSE, "tx", m, quotes + 1, submits + 1)
              [] OTHER ->
                   IF MoreAttempts(a)
                   THEN SellWithRetry(m, outs, a + 1, max_retries,
                                      quotes, submits)
                   ELSE SellResult(FALSE, "exception", m, quotes, submits)

(* "slippage_bps = min(BASE_SLIPPAGE_BPS + (attempt * SLIPPAGE_STEP_BPS),
    MAX_SLIPPAGE_BPS)" *)
Slippage_Uncapped(attempt) == BASE_SLIPPAGE_BPS + attempt * SLIPPAGE_STEP_BPS

Slippage(attempt) ==
    Min(BASE_SLIPPAGE_BPS + attempt * SLIPPAGE_STEP_BPS, MAX_SLIPPAGE_BPS)

(* the retry loop of execute_sniper_buy from attempt a on: <<outcome, m,
   quotes, submits>>.  A stale quote on the last attempt is not refetched and
   goes on to be signed and sent; only the except branch records a buy
   failure. *)
RECURSIVE BuyWithRetry(_, _, _, _, _)
BuyWithRetry(m, outs, a, quotes, submits) ==
    IF a >= MAX_RETRIES
    THEN Returned(m, "no_attempt", quotes, submits)
    ELSE LET o == outs[a + 1]
         IN CASE o = "ok" -> Returned(m, "sent", quotes + 1, submits + 1)
              [] o = "quote_fail" ->
                   IF MoreAttempts(a)
                   THEN BuyWithRetry(RecordIn(m, "api"), outs, a + 1,
                                     quotes + 1, submits)
                   ELSE Returned(RecordIn(m, "api"), "no_quote",
                                 quotes + 1, submits)
              [] o = "invalid_quote" ->
                   IF MoreAttempts(a)
                   THEN BuyWithRetry(m, outs, a + 1, quotes + 1, submits)
                   ELSE Returned(m, "invalid_quote", quotes + 1, submits)
              [] o = "stale_quote" ->
                   IF MoreAttempts(a)
                   THEN BuyWithRetry(m, outs, a + 1, quotes + 1, submits)
                   ELSE Returned(m, "sent", quotes + 1, submits + 1)
              [] o = "no_swap_tx" ->
                   IF MoreAttempts(a)
                   THEN BuyWithRetry(RecordIn(m, "api"), outs, a + 1,
                                     quotes + 1, submits)
                   ELSE Returned(RecordIn(m, "api"), "no_swap_tx",
                                 quotes + 1, submits)
              [] o = "sign_fail" ->
                   IF MoreAttempts(a)
                   THEN BuyWithRetry(m, outs, a + 1, quotes + 1, submits)
                   ELSE Returned(m, "sign_fail", quotes + 1, submits)
              [] o = "send_error" ->
                   IF MoreAttempts(a)
                   THEN BuyWithRetry(m, outs, a + 1, quotes + 1, submits + 1)
                   ELSE Returned(m, "send_error", quotes + 1, submits + 1)
              [] o = "no_tx_id" ->
                   IF MoreAttempts(a)
                   THEN BuyWithRetry(m, outs, a + 1, quotes + 1, submits + 1)
                   ELSE Returned(m, "no_tx_id", quotes + 1, submits + 1)
              [] OTHER ->
                   IF MoreAttempts(a)
                   THEN BuyWithRetry(m, outs, a + 1, quotes, submits)
                   ELSE Returned(RecordIn(m, "buy"), "exception",
                                 quotes, submits)

(* TradeManager._finalize_sell_position *)
FinalizeSellPosition_KeepEntry(m, t, action) ==
    LET pos == [m.active[t] EXCEPT !.status = "closed"]
    IN [m EXCEPT !.history = Append(@, HistoryRecord(pos, action)),
                 !.active[t] = pos]

FinalizeSellPosition(m, t, action) ==
    LET pos == [m.active[t] EXCEPT !.status = "closed"]
    IN [m EXCEPT !.history = Append(@, HistoryRecord(pos, action)),
                 !.active[t] = NoPosition]

(* TradeManager._should_chunk_sell: <<should_chunk, chunk_size>> *)
ShouldChunkSell(token_balance, pos) ==
    IF BUY_AMOUNT_USD * 100 > pos.initial_liquidity * LIQUIDITY_DEPTH_MULTIPLIER * 2
    THEN <<TRUE, Max(token_balance \div 4, 1)>>
    ELSE IF token_balance > 1000000
         THEN <<TRUE, Max(token_balance \div 3, 1)>>
         ELSE <<FALSE, 0>>

(* the tokens a submitted swap takes out of the wallet *)
Debit(m, t, amount) == [m EXCEPT !.tokens[t] = Max(0, @ - amount)]

(* wallet.get_token_balance: 0 when the RPC call fails *)
TokenBalanceRead(m, t, rpc_ok) == IF rpc_ok THEN m.tokens[t] ELSE 0

(* "if token_address in self.active_positions" *)
HasPosition_Never(m, t) == FALSE

HasPosition(m, t) == m.active[t] # NoPosition

(* execute_sniper_buy *)
ExecuteSniperBuyOp_Eager(m, t, td, funds_ok, outs, tx_id) ==
    WithGate(m,
      IF HasPosition(m, t)
      THEN Returned(m, "already_have_position", 0, 0)
      ELSE IF ~funds_ok
      THEN Returned(m, "insufficient_sol", 0, 0)
      ELSE LET r == BuyWithRetry(m, outs, 0, 0, 0)
               pos == NewPosition(t, td, QuoteOutAmount, now, tx_id)
               recorded == [r.m EXCEPT !.active[t] = pos,
                                       !.history =
                                           Append(@, HistoryRecord(pos, "buy"))]
           IN IF r.result # "sent"
              THEN IF r.submits > 0 THEN [r EXCEPT !.m = recorded] ELSE r
              ELSE Returned(recorded, "success", r.quotes, r.submits))

ExecuteSniperBuyOp(m, t, td, funds_ok, outs, tx_id) ==
    WithGate(m,
      IF HasPosition(m, t)
      THEN Returned(m, "already_have_position", 0, 0)
      ELSE IF ~funds_ok
      THEN Returned(m, "insufficient_sol", 0, 0)
      ELSE LET r == BuyWithRetry(m, outs, 0, 0, 0)
           IN IF r.result # "sent"
              THEN r
              ELSE LET pos == NewPosition(t, td, QuoteOutAmount, now, tx_id)
                   IN Returned(
                        [r.m EXCEPT !.active[t] = pos,
                                    !.history =
                                        Append(@, HistoryRecord(pos, "buy"))],
                        "success", r.quotes, r.submits))

(* "elif position['confirmation_attempts'] > 10": the polls after which a
   buy is given up, scaled down from the code's 10 *)
MaxConfirmationAttempts == 1

(* "elif position['confirmation_attempts'] > 10" *)
TimedOut_Never(attempts) == FALSE

TimedOut(attempts) == attempts > MaxConfirmationAttempts

(* "if actual_balance > 0" after a poll that answered confirmed *)
TokensReceived_Always(actual_balance) == TRUE

TokensReceived(actual_balance) == actual_balance > 0

(* one iteration of the loop of confirm_pending_transactions for token t,
   with the removal of a failed position (second loop) done on the spot:
   the second loop visits the failed positions in the order of the first *)
ConfirmOne(m, t, ledger, rpc) ==
    LET position == m.active[t]
    IN IF position.status # "pending"
       THEN m
       ELSE LET poll == IF rpc = "status_error"
                        THEN "error"
                        ELSE IF rpc = "status_unknown"
                        THEN "unknown"
                        ELSE ledger[position.tx_id].status
                pos == [position EXCEPT !.confirmation_attempts = @ + 1]
                actual_balance == TokenBalanceRead(m, t, rpc # "balance_error")
                upd ==
                    IF poll = "confirmed"
                    THEN IF TokensReceived(actual_balance)
                         THEN [pos EXCEPT !.status = "open",
                                          !.remaining_tokens = actual_balance]
                         ELSE [pos EXCEPT !.status = "failed",
                                          !.failure_reason = "no_tokens_received"]
                    ELSE IF poll = "failed"
                    THEN [pos EXCEPT !.status = "failed",
                                     !.failure_reason = "transaction_failed"]
                    ELSE IF TimedOut(pos.confirmation_attempts)
                    THEN [pos EXCEPT !.status = "timeout",
                                     !.failure_reason = "confirmation_timeout"]
                    ELSE pos
            IN IF upd.status \in {"failed", "timeout"}
               THEN [m EXCEPT !.active[t] = NoPosition,
                              !.history =
                                  Append(@, HistoryRecord(upd, "failed_buy"))]
               ELSE [m EXCEPT !.active[t] = upd]

(* the keys of active_positions in dict order, which is the order in which
   the entries were inserted *)
RECURSIVE InOrder(_, _)
InOrder(active, ts) ==
    IF ts = {}
    THEN << >>
    ELSE LET first == CHOOSE t \in ts :
                          \A u \in ts : active[t].tx_id <= active[u].tx_id
         IN <<first>> \o InOrder(active, ts \ {first})

ActiveKeys(m) == InOrder(m.active, {t \in Tokens : m.active[t] # NoPosition})

(* confirm_pending_transactions *)
RECURSIVE ConfirmFrom(_, _, _, _, _)
ConfirmFrom(m, keys, i, ledger, rpc) ==
    IF i > Len(keys)
    THEN m
    ELSE ConfirmFrom(ConfirmOne(m, keys[i], ledger, rpc[keys[i]]),
                     keys, i + 1, ledger, rpc)

ConfirmPendingTransactions(m, ledger, rpc) ==
    ConfirmFrom(m, ActiveKeys(m), 1, ledger, rpc)

(* "if actual_balance < position['remaining_tokens']:
       position['remaining_tokens'] = actual_balance" *)
Reconciled_Bookkeeping(left, actual_balance) == left

Reconciled(left, actual_balance) ==
    IF actual_balance < left THEN actual_balance ELSE left

(* execute_partial_sell *)
ExecutePartialSellOp(m, t, exit_ratio, outs, rpc_ok) ==
    IF m.active[t] = NoPosition
    THEN Returned(m, "no_position", 0, 0)
    ELSE WithGate(m,
      LET position == m.active[t]
          remaining_tokens == position.remaining_tokens
          adjusted_balance == DustReduced(remaining_tokens)
          sell_amount == (adjusted_balance * exit_ratio) \div 100
      IN IF remaining_tokens <= 0
         THEN Returned(m, "no_remaining_tokens", 0, 0)
         ELSE IF sell_amount <= 0
         THEN Returned(m, "amount_too_small", 0, 0)
         ELSE LET r == SellWithRetry(m, outs, 0, MAX_RETRIES, 0, 0)
              IN IF ~r.tx
                 THEN Returned(RecordIn(r.m, "sell"), "failed",
                               r.quotes, r.submits)
                 ELSE LET m1 == Debit(r.m, t, sell_amount)
                          actual_balance == TokenBalanceRead(m1, t, rpc_ok)
                          left == Max(0, remaining_tokens - sell_amount)
                          p1 == [position EXCEPT
                                   !.total_sold_ratio = @ + exit_ratio,
                                   !.remaining_tokens =
                                       Reconciled(left, actual_balance)]
                          p2 == IF p1.total_sold_ratio >= 99
                                     \/ p1.remaining_tokens < 100
                                THEN [p1 EXCEPT !.status = "closing"]
                                ELSE p1
                      IN Returned(
                           [m1 EXCEPT !.active[t] = p2,
                                      !.history = Append(@,
                                          HistoryRecord(p2, "partial_sell"))],
                           "success", r.quotes, r.submits))

(* '"High price impact" in str(error_msg)' on what _execute_sell_with_retry
   returned *)
IsHighImpact_Never(err) == FALSE

IsHighImpact(err) == err = "high_impact"

(* dust_reduction = DUST_REDUCTION_FACTOR - (chunks_completed * 0.002), in
   thousandths *)
ChunkDustReduction_Flat(chunks_completed) == DUST_REDUCTION_FACTOR

ChunkDustReduction(chunks_completed) ==
    DUST_REDUCTION_FACTOR - 2 * chunks_completed

(* what a pass of the while-loop of _execute_chunked_sell leaves when it
   breaks before asking for a quote *)
ChunkBreak(m, chunk_size, chunks_completed, quotes, submits) ==
    [go |-> "break", asked |-> FALSE, m |-> m, chunk_size |-> chunk_size,
     chunks_completed |-> chunks_completed, sold |-> 0,
     quotes |-> quotes, submits |-> submits]

(* the rest of the pass on the result r of the chunk's single attempt *)
ChunkAsked(r, chunk_size, chunks_completed, current_chunk) ==
    LET asked == [ChunkBreak(r.m, chunk_size, chunks_completed, r.quotes,
                             r.submits) EXCEPT !.asked = TRUE]
    IN IF ~r.tx
       THEN IF IsHighImpact(r.err) /\ chunk_size > MIN_CHUNK_SIZE
            THEN [asked EXCEPT
                    !.go = "continue",
                    !.chunk_size = Max(chunk_size \div 2, MIN_CHUNK_SIZE)]
            ELSE asked
       ELSE [asked EXCEPT !.go = "continue",
                          !.chunks_completed = @ + 1,
                          !.sold = current_chunk]

(* one pass of the while-loop of _execute_chunked_sell on the token balance
   it reads and on what the chunk's single attempt runs into: whether the
   loop goes on, the chunk size and count it goes on with, the tokens the
   chunk offered for sale, and whether the pass got as far as asking for a
   quote *)
ChunkPass(m, chunk_size, chunks_completed, full_token_balance, o, quotes, submits) ==
    LET adjusted_balance ==
            (full_token_balance * ChunkDustReduction(chunks_completed))
                \div 1000
        current_chunk == Min(chunk_size, adjusted_balance)
    IN IF full_token_balance <= 0 \/ current_chunk <= 0
       THEN ChunkBreak(m, chunk_size, chunks_completed, quotes, submits)
       ELSE ChunkAsked(SellWithRetry(m, <<o>>, 0, 1, quotes, submits),
                       chunk_size, chunks_completed, current_chunk)

(* the while-loop of _execute_chunked_sell from its i-th pass on, with a
   ledger that takes every chunk sent out of the wallet at once; done is
   FALSE when the outcomes run out before the loop has ended.  ChunkAfter
   is the loop after the pass p. *)
RECURSIVE ChunkLoop(_, _, _, _, _, _, _, _)
RECURSIVE ChunkAfter(_, _, _, _, _, _, _)
ChunkAfter(p, m, t, couts, i, quotes, submits) ==
    IF ~p.asked
    THEN [done |-> TRUE, used |-> i - 1, m |-> m,
          quotes |-> quotes, submits |-> submits]
    ELSE IF i > Len(couts)
    THEN [done |-> FALSE, used |-> i - 1, m |-> m,
          quotes |-> quotes, submits |-> submits]
    ELSE IF p.go = "break"
    THEN [done |-> TRUE, used |-> i, m |-> p.m,
          quotes |-> p.quotes, submits |-> p.submits]
    ELSE ChunkLoop(Debit(p.m, t, p.sold), t, p.chunk_size, couts, i + 1,
                   p.chunks_completed, p.quotes, p.submits)

ChunkLoop(m, t, chunk_size, couts, i, chunks_completed, quotes, submits) ==
    ChunkAfter(ChunkPass(m, chunk_size, chunks_completed, m.tokens[t],
                         IF i <= Len(couts) THEN couts[i] ELSE "none",
                         quotes, submits),
               m, t, couts, i, quotes, submits)

(* wallet.get_sol_balance: 0 when the RPC call fails *)
SolBalanceRead(sol, rpc_ok) == IF rpc_ok THEN sol ELSE 0

(* actual_total_received = final_sol_balance - initial_sol_balance *)
Received_Final(final_sol_balance, initial_sol_balance) == final_sol_balance

Received(final_sol_balance, initial_sol_balance) ==
    final_sol_balance - initial_sol_balance

(* _execute_chunked_sell: whatever the loop did, the position is finalized *)
ExecuteChunkedSell(m, t, chunk_size, couts, quotes, submits) ==
    LET r == ChunkLoop(m, t, chunk_size, couts, 1, 0, quotes, submits)
    IN IF r.done /\ r.used = Len(couts)
       THEN Returned(FinalizeSellPosition(r.m, t, "chunked_sell"),
                     "success", r.quotes, r.submits)
       ELSE Returned(m, "undetermined", 0, 0)

(* execute_sniper_sell (and close_position, which only forwards to it) *)
ExecuteSniperSellOp(m, t, outs, couts, rpc_ok) ==
    IF m.active[t] = NoPosition
    THEN Returned(m, "no_position", 0, 0)
    ELSE WithGate(m,
      LET position == m.active[t]
          full_token_balance == TokenBalanceRead(m, t, rpc_ok)
          token_balance == DustReduced(full_token_balance)
          chunk == ShouldChunkSell(token_balance, position)
      IN IF full_token_balance <= 0
         THEN Returned(m, "no_tokens", 0, 0)
         ELSE IF token_balance <= 0
         THEN Returned(m, "too_small", 0, 0)
         ELSE IF chunk[1]
         THEN IF outs = << >>
              THEN ExecuteChunkedSell(m, t, chunk[2], couts, 0, 0)
              ELSE Returned(m, "undetermined", 0, 0)
         ELSE IF outs = << >>
         THEN Returned(m, "undetermined", 0, 0)
         ELSE LET r == SellWithRetry(m, outs, 0, MAX_RETRIES, 0, 0)
              IN IF r.tx
                 THEN Returned(
                        FinalizeSellPosition(
                            Debit(r.m, t, token_balance), t, "sell"),
                        "success", r.quotes, r.submits)
                 ELSE IF IsHighImpact(r.err)
                 THEN ExecuteChunkedSell(r.m, t,
                          (token_balance * CHUNK_SIZE_RATIO) \div 100,
                          couts, r.quotes, r.submits)
                 ELSE LET pos == [position EXCEPT !.status = "failed"]
                      IN Returned(
                           RecordIn(
                             [r.m EXCEPT
                                !.history = Append(@,
                                    HistoryRecord(pos, "failed_sell")),
                                !.active[t] = NoPosition],
                             "sell"),
                           "failed", r.quotes, r.submits))

(* ------------------------------------------------------------------ *)
(* The circuit breaker on its own                                     *)
(* ------------------------------------------------------------------ *)
(* the components as constructed *)
BreakerConstructed == circuit_breaker = CircuitBreakerInit /\ last = NoOp
ClientConstructed == request_cache = RequestCacheInit /\ rr = RRIdle
NoEvaluation == ssp_in = SspNoInput /\ ssp_out = NoDecision
NoSellAttempt ==
    [pc |-> "idle", max_retries |-> 0, attempt |-> 0, seen |-> << >>,
     outs |-> << >>, tx |-> FALSE, err |-> "none"]

(* the wallet's native balance when the manager is constructed *)
InitialSol == 1000

NoChunkedSell ==
    [pc |-> "idle", token |-> "none", chunk_size |-> 0, chunks_completed |-> 0,
     outcome |-> "none", sol |-> InitialSol, sol_at_start |-> 0,
     initial_sol_balance |-> 0, final_sol_balance |-> 0, received |-> 0,
     history_at_start |-> 0, ledger_settles |-> TRUE]

NoBuyAttempt ==
    [pc |-> "idle", token |-> "none",
     td |-> [price |-> 0, liquidity |-> 0, volume_24h |-> 0],
     attempt |-> 0, outs |-> << >>, slippage |-> << >>,
     submits |-> 0, accepted |-> 0, stale_sent |-> FALSE, result |-> "none",
     buy_failures_at_call |-> 0, sol_balance |-> 0, planned_sol |-> 0,
     token_balance |-> 0, sol_amount |-> 0, sent_paused |-> FALSE]

(* the candidate tokens the scanner hands to the control loop *)
MaxCandidates == 6
Candidates == 1..MaxCandidates

(* SolanaSniper.__init__ with the manager's active map as the control loop
   sees it: per candidate "none" (no entry), "pending" or "open" *)
NoCycle ==
    [pc |-> "idle", queue |-> << >>, open_at_start |-> {}, evaluated |-> {},
     decided |-> {}, attempted |-> {}, raised |-> FALSE]

BotConstructed ==
    [running |-> FALSE, exited |-> FALSE,
     active |-> [c \in Candidates |-> "none"],
     held_at_stop |-> {}, sold_at_stop |-> {}, cycle |-> NoCycle]

ManagerConstructed ==
    /\ bot = BotConstructed
    /\ sr = NoSellAttempt
    /\ cs = NoChunkedSell
    /\ sb = NoBuyAttempt
    /\ active_positions = [t \in Tokens |-> NoPosition]
    /\ trade_history = << >>
    /\ sell_queue = << >>
    /\ wallet_tokens = [t \in Tokens |-> 0]
    /\ tx_status = << >>

CBInit ==
    /\ now = 0
    /\ BreakerConstructed
    /\ ClientConstructed
    /\ NoEvaluation
    /\ ManagerConstructed

Tick ==
    /\ now < MaxTime
    /\ now' = now + 1
    /\ UNCHANGED <<cbState, rrState, sspState, tmState, ledgerState>>

CBRecord(c) ==
    /\ TotalFailures(circuit_breaker) < MaxFailures
    /\ LET r == RecordFailure(circuit_breaker, c, now)
       IN /\ circuit_breaker' = r[1]
          /\ last' = Called("record_failure", c, "none", r[2])
    /\ UNCHANGED <<now, rrState, sspState, tmState, ledgerState>>

CBCheck ==
    /\ LET r == CheckIfPaused(circuit_breaker, now)
       IN /\ circuit_breaker' = r[1]
          /\ last' = Called("check_if_paused", "none", r[2], r[3])
    /\ UNCHANGED <<now, rrState, sspState, tmState, ledgerState>>

CBNext ==
    \/ Tick
    \/ \E c \in Categories : CBRecord(c)
    \/ CBCheck

SpecCB == CBInit /\ [][CBNext]_vars

(* ------------------------------------------------------------------ *)
(* Claims about the circuit breaker                                   *)
(* ------------------------------------------------------------------ *)

(* failures of category c, as logged after the step, that lie inside the
   trailing window of the moment of the step *)
InWindowAfter(c) ==
    Cardinality({i \in 1..Len(circuit_breaker'.failures[c]) :
                    circuit_breaker'.failures[c][i] > now - TimeWindow})

(* C4: a record_*_failure call trips the breaker (paused, start time and
   reason recorded) exactly when the failures of that same category inside
   the trailing window reach the threshold; other categories never count,
   and a call below the threshold leaves the pause state as it was. *)
C4_TripOnOwnCategoryCount ==
    [][\A c \in Categories :
         Len(circuit_breaker'.failures[c]) = Len(circuit_breaker.failures[c]) + 1
         => IF InWindowAfter(c) >= FailureThreshold
            THEN /\ circuit_breaker'.is_paused
                 /\ ~circuit_breaker.is_paused
                      => /\ circuit_breaker'.pause_start_time = now
                         /\ circuit_breaker'.pause_reason = c
            ELSE /\ circuit_breaker'.is_paused = circuit_breaker.is_paused
                 /\ circuit_breaker'.pause_start_time
                        = circuit_breaker.pause_start_time
                 /\ circuit_breaker'.pause_reason = circuit_breaker.pause_reason
      ]_vars

(* threshold-1 failures inside the window in every one of the four
   categories, the last of them just recorded, and the breaker not paused *)
C4_Witness ==
    /\ last.op = "record_failure"
    /\ ~circuit_breaker.is_paused
    /\ \A c \in Categories :
         Cardinality(RecentFailures(circuit_breaker.failures[c], now))
             = FailureThreshold - 1

(* C5: when the breaker is paused and more than pause_duration has elapsed,
   the next check_if_paused call clears flag, start time and reason, emits
   the resume alert and returns false. *)
C5_ExpiredPauseIsCleared ==
    [][(/\ circuit_breaker.is_paused
        /\ now - circuit_breaker.pause_start_time > PauseDuration
        /\ last'.op = "check_if_paused"
        /\ now' = now
        /\ circuit_breaker'.failures = circuit_breaker.failures)
       => (/\ last'.result = "False"
           /\ "CIRCUIT_BREAKER_RESET" \in last'.alerts
           /\ ~circuit_breaker'.is_paused
           /\ circuit_breaker'.pause_start_time = NoTime
           /\ circuit_breaker'.pause_reason = NoReason)
      ]_vars

(* ------------------------------------------------------------------ *)
(* APIClient.resilient_request, one step per invocation of the work   *)
(* ------------------------------------------------------------------ *)
RRInit ==
    /\ now = 0
    /\ BreakerConstructed
    /\ ClientConstructed
    /\ NoEvaluation
    /\ ManagerConstructed

(* entry: the cache check *)
RRCall(key) ==
    /\ rr.pc \in {"idle", "done", "raised"}
    /\ rr' = IF CacheHit(request_cache, key, now)
             THEN [RRIdle EXCEPT !.pc = "done", !.key = key, !.hit = TRUE,
                                 !.result = request_cache[key].data]
             ELSE IF InRange(0)
                  THEN [RRIdle EXCEPT !.pc = "loop", !.key = key]
                  ELSE AfterLoop(request_cache, [RRIdle EXCEPT !.key = key])
    /\ UNCHANGED <<now, cbState, request_cache, sr, cs, sb, bot, sspState,
                   tmState, ledgerState>>

(* one iteration of the retry loop; o is what the invocation does *)
RRAttempt(o) ==
    /\ rr.pc = "loop"
    /\ LET r1 == [rr EXCEPT !.calls = @ + 1, !.final = o.kind]
       IN IF o.kind = "ok"
          THEN /\ request_cache' =
                    IF rr.key # NoKey /\ o.val # NoData
                    THEN [request_cache EXCEPT ![rr.key] =
                            [present |-> TRUE, data |-> o.val, timestamp |-> now]]
                    ELSE request_cache
               /\ rr' = [r1 EXCEPT !.pc = "done", !.value = o.val,
                                   !.result = o.val]
          ELSE /\ UNCHANGED request_cache
               /\ rr' =
                    IF ~Caught(o.kind)
                    THEN [r1 EXCEPT !.pc = "raised"]
                    ELSE IF o.kind = "http_4xx"
                    THEN AfterLoop(request_cache, r1)
                    ELSE LET r2 == [r1 EXCEPT !.fails = @ + 1]
                         IN IF RetrySleeps(rr.attempt)
                            THEN IF InRange(rr.attempt + 1)
                                 THEN [r2 EXCEPT !.sleeps = @ + 1,
                                                 !.attempt = @ + 1]
                                 ELSE AfterLoop(request_cache,
                                          [r2 EXCEPT !.sleeps = @ + 1])
                            ELSE IF InRange(rr.attempt + 1)
                                 THEN [r2 EXCEPT !.attempt = @ + 1]
                                 ELSE AfterLoop(request_cache, r2)
    /\ UNCHANGED <<now, cbState, sr, cs, sb, bot, sspState, tmState, ledgerState>>

RRNext ==
    \/ Tick
    \/ \E key \in CacheKeys \cup {NoKey} : RRCall(key)
    \/ \E o \in Outcomes : RRAttempt(o)

SpecRR == RRInit /\ [][RRNext]_vars

(* C10: a call whose work fails retryably k < max_retries times and then
   succeeds returns the success value after exactly k+1 invocations and at
   most k sleeps; the loop gives up on retryable failures only after
   max_retries invocations, so the (k+1)-th invocation is made for every
   k < max_retries, k = max_retries-1 included. *)
C10_RetryThenSuccess ==
    (rr.pc = "done" /\ ~rr.hit)
    => /\ rr.final = "ok"
            => /\ rr.fails < MaxRetries
               /\ rr.result = rr.value
               /\ rr.calls = rr.fails + 1
               /\ rr.sleeps <= rr.fails
       /\ rr.final \in RetryableKinds => rr.calls = MaxRetries

(* the work failed on the first max_retries-1 invocations and succeeded on
   the last one *)
C10_Witness ==
    /\ rr.pc = "done"
    /\ rr.final = "ok"
    /\ rr.fails = MaxRetries - 1
    /\ rr.result \in Values

(* C11: when every attempt of a keyed request fails and an earlier
   successful call stored an entry under that key, resilient_request returns
   the stored value whatever its age, not the no-data sentinel; an entry,
   once stored, is never evicted. *)
C11_StaleFallback ==
    [][/\ \A k \in CacheKeys :
             request_cache[k].present => request_cache'[k].present
       /\ (rr'.pc = "done" /\ ~rr'.hit /\ rr'.final \in FailureKinds
             /\ rr'.key # NoKey /\ request_cache'[rr'.key].present)
          => /\ rr'.result = request_cache'[rr'.key].data
             /\ rr'.result # NoData
             /\ rr'.stale
      ]_vars

(* every attempt failed and the value returned is an entry at least a TTL
   old *)
C11_Witness ==
    /\ rr.pc = "done"
    /\ rr.final \in RetryableKinds
    /\ rr.calls = MaxRetries
    /\ rr.stale
    /\ rr.result \in Values
    /\ now - request_cache[rr.key].timestamp >= CacheTtl

(* C12: resilient_request never lets a failure of the wrapped work escape:
   for every kind of failure, on every attempt, with or without a cache key,
   it invokes the work at most max_retries times and returns a value or the
   no-data sentinel. *)
C12_FailuresNeverEscape ==
    /\ rr.pc # "raised"
    /\ rr.calls <= MaxRetries
    /\ rr.pc = "loop" => rr.calls = rr.attempt /\ rr.calls < MaxRetries
    /\ rr.pc = "done" => rr.result \in Values \cup {NoData}

(* a call without a cache key whose every invocation raised an exception
   other than a requests one has returned the sentinel *)
C12_Witness ==
    /\ rr.pc = "done"
    /\ rr.key = NoKey
    /\ rr.final = "exception"
    /\ rr.calls = MaxRetries
    /\ rr.result = NoData

(* ------------------------------------------------------------------ *)
(* TradeManager.should_sell_position on one position and one set of   *)
(* fetch results                                                      *)
(* ------------------------------------------------------------------ *)
SspInit ==
    /\ now = 0
    /\ BreakerConstructed
    /\ ClientConstructed
    /\ ssp_in \in SspInputs
    /\ ssp_out = NoDecision
    /\ ManagerConstructed

SspEvaluate ==
    /\ ~ssp_out.done
    /\ ssp_out' =
         [done |-> TRUE,
          decision |-> ShouldSellPosition(ssp_in.position, ssp_in.price,
                           ssp_in.liquidity, ssp_in.volume, ssp_in.held)[1],
          strategy |-> GetExitDecision(ssp_in.position, ssp_in.price,
                                       ssp_in.held)[1]]
    /\ UNCHANGED <<now, cbState, rrState, ssp_in, tmState, ledgerState>>

SspNext == SspEvaluate

SpecSSP == SspInit /\ [][SspNext]_vars

PriceAvailable == ssp_in.price # NoData /\ ssp_in.price # 0

(* C7 as stated: for a position whose current price is available and whose
   current liquidity is below its liquidity_drop_threshold the decision is
   (true, "liquidity_drop", 1.0), whatever the strategy would return. *)
C7_LiquidityDropAnyPosition ==
    (/\ ssp_out.done
     /\ PriceAvailable
     /\ ssp_in.liquidity # NoData
     /\ ssp_in.liquidity < ssp_in.position.liquidity_drop_threshold)
    => ssp_out.decision = Decision(TRUE, "liquidity_drop", 100)

(* C7 amended: the same for every position whose entry price is set
   (non-zero); without an entry price the decision is the full exit
   "missing_data" before any fetch. *)
C7_LiquidityDropFirst ==
    (/\ ssp_out.done
     /\ ssp_in.position.entry_price # 0
     /\ PriceAvailable
     /\ ssp_in.liquidity # NoData
     /\ ssp_in.liquidity < ssp_in.position.liquidity_drop_threshold)
    => ssp_out.decision = Decision(TRUE, "liquidity_drop", 100)

(* liquidity fell from 50000 at entry to 2000 while the strategy of the
   position, asked alone, answers something else (here: hold, with pnl
   positive) *)
C7_Witness ==
    /\ ssp_out.done
    /\ ssp_in.position.entry_price = 100
    /\ ssp_in.position.initial_liquidity = 50000
    /\ ssp_in.liquidity = 2000
    /\ ssp_in.price = 125
    /\ ssp_out.strategy.reason # "liquidity_drop"
    /\ ssp_out.decision.reason = "liquidity_drop"

(* C8: an unavailable datum never causes an exit: no price -> hold; no
   liquidity -> never "liquidity_drop"; no volume -> never "low_activity". *)
C8_NoExitOnMissingData ==
    ssp_out.done
    => /\ (ssp_in.position.entry_price # 0 /\ ssp_in.price = NoData)
            => ~ssp_out.decision.exit
       /\ ssp_in.liquidity = NoData
            => ssp_out.decision.reason # "liquidity_drop"
       /\ ssp_in.volume = NoData
            => ssp_out.decision.reason # "low_activity"

(* ------------------------------------------------------------------ *)
(* One position under its exit strategy: price observations fed to the *)
(* strategy or to should_sell_position, and the partial sells that     *)
(* monitor_positions makes of their decisions                          *)
(* ------------------------------------------------------------------ *)
ObservedPrices == {0, 85, 97, 125, 155, 225}
ObservedLiquidities == {NoData, 2000, 60000}
ObservedVolumes == {NoData, 60000}

ESInit ==
    /\ now = 0
    /\ BreakerConstructed
    /\ ClientConstructed
    /\ ManagerConstructed
    /\ ssp_in \in
         {[position |-> MonitoredPosition(e, l, 60000, 0, NoPrice, st),
           price |-> NoData, liquidity |-> NoData, volume |-> NoData,
           held |-> 1] :
              e \in EntryPrices, l \in InitialLiquidities, st \in StrategyNames}
    /\ ssp_out = NoDecision

(* exit_manager.get_exit_decision(position, current_price) *)
ESStrategy(p, m) ==
    /\ m >= ssp_in.held
    /\ LET r == GetExitDecision(ssp_in.position, p, m)
       IN /\ ssp_in' = [position |-> r[2], price |-> p, liquidity |-> NoData,
                        volume |-> NoData, held |-> m]
          /\ ssp_out' = [done |-> TRUE, decision |-> r[1], strategy |-> r[1]]
    /\ UNCHANGED <<now, cbState, rrState, tmState, ledgerState>>

(* should_sell_position(position) as monitor_positions calls it *)
ESMonitor(p, l, v, m) ==
    /\ m >= ssp_in.held
    /\ LET r == ShouldSellPosition(ssp_in.position, p, l, v, m)
       IN /\ ssp_in' = [position |-> r[2], price |-> p, liquidity |-> l,
                        volume |-> v, held |-> m]
          /\ ssp_out' = [done |-> TRUE, decision |-> r[1],
                         strategy |-> GetExitDecision(ssp_in.position, p, m)[1]]
    /\ UNCHANGED <<now, cbState, rrState, tmState, ledgerState>>

(* the decision was a partial exit and execute_partial_sell went through:
   position['total_sold_ratio'] += exit_ratio *)
ESPartialSold ==
    /\ ssp_out.done
    /\ ssp_out.decision.exit
    /\ ssp_out.decision.ratio > 0
    /\ ssp_out.decision.ratio < 100
    /\ ssp_in' = [ssp_in EXCEPT !.position.total_sold_ratio =
                                    @ + ssp_out.decision.ratio]
    /\ ssp_out' = NoDecision
    /\ UNCHANGED <<now, cbState, rrState, tmState, ledgerState>>

ESNext ==
    \/ \E p \in ObservedPrices, m \in HeldMinutes : ESStrategy(p, m)
    \/ \E p \in ObservedPrices \cup {NoData}, l \in ObservedLiquidities,
          v \in ObservedVolumes, m \in HeldMinutes : ESMonitor(p, l, v, m)
    \/ ESPartialSold

SpecES == ESInit /\ [][ESNext]_vars

(* tier lists whose cumulative targets are at most 1.0 *)
TierLists ==
    {ExitLevels, <<<<20, 25>>, <<50, 50>>>>, <<<<20, 50>>, <<50, 25>>>>,
     <<<<50, 100>>>>}

(* already-sold ratios, those the partial sells of tier exits produce and
   others that direct partial sells can leave *)
AlreadySold == {0, 1, 25, 50, 99, 100, 120}

(* C13: whenever ScaledExitStrategy signals an exit, tier exit or stop-loss,
   the already-sold ratio plus the returned exit ratio is at most 1.0, for
   every position, every price and every tier list whose cumulative targets
   are at most 1.0. *)
C13_ScaledExitWithinWhole ==
    \A levels \in TierLists, p \in ObservedPrices,
       sold \in AlreadySold \cup {ssp_in.position.total_sold_ratio} :
        LET pos == [ssp_in.position EXCEPT !.total_sold_ratio = sold]
            d == ScaledExitWith(levels, pos, p)[1]
        IN d.exit => sold + d.ratio <= 100

(* the scaled strategy has just signalled its stop-loss for a position a
   quarter of which is sold *)
C13_Witness ==
    /\ ssp_out.done
    /\ ssp_in.position.exit_strategy = "scaled"
    /\ ssp_in.position.total_sold_ratio = 25
    /\ ssp_out.strategy = Decision(TRUE, "stop_loss", 75)

(* the tiers of levels that ScaledExitStrategy would take for pos at price
   cur: profit threshold reached, cumulative target more than 1% above the
   already-sold ratio *)
TiersDue(levels, pos, cur) ==
    {i \in 1..Len(levels) :
        /\ PnlAtLeast(pos.entry_price, cur, levels[i][1])
        /\ levels[i][2] - pos.total_sold_ratio > 1}

TwoTiers == <<<<20, 25>>, <<50, 50>>>>

(* C14: ScaledExitStrategy returns, for the first tier in list order whose
   profit threshold is reached and whose cumulative target exceeds the
   already-sold ratio by more than 1%, (true, "scaled_exit_<threshold%>",
   target - already_sold); with tiers [(0.2,0.25),(0.5,0.5)] a pnl of 0.25
   with nothing sold gives ratio 0.25 for the 20% tier, and with that sale
   applied a pnl of 0.55 gives ratio 0.25 for the 50% tier. *)
C14_FirstDueTier ==
    (ssp_in.position.entry_price # 0)
    => /\ \A levels \in TierLists, p \in ObservedPrices \ {0} :
             LET pos == ssp_in.position
                 due == TiersDue(levels, pos, p)
             IN due # {}
                => LET i == CHOOSE j \in due : \A k \in due : j <= k
                   IN ScaledExitWith(levels, pos, p)[1] =
                        Decision(TRUE, ScaledReason(levels[i][1]),
                                 levels[i][2] - pos.total_sold_ratio)
       /\ (ssp_in.position.entry_price = 100
             /\ ssp_in.position.total_sold_ratio = 0)
          => ScaledExitWith(TwoTiers, ssp_in.position, 125)[1] =
                Decision(TRUE, "scaled_exit_20%", 25)
       /\ (ssp_in.position.entry_price = 100
             /\ ssp_in.position.total_sold_ratio = 25)
          => ScaledExitWith(TwoTiers, ssp_in.position, 155)[1] =
                Decision(TRUE, "scaled_exit_50%", 25)

(* the first tier's sale is applied and the strategy has just answered the
   price of +55% *)
C14_Witness ==
    /\ ssp_out.done
    /\ ssp_in.position.exit_strategy = "scaled"
    /\ ssp_in.position.entry_price = 100
    /\ ssp_in.position.total_sold_ratio = 25
    /\ ssp_in.price = 155
    /\ ssp_out.strategy = Decision(TRUE, "scaled_exit_50%", 25)

(* what one observation fed to TrailingStopStrategy.should_exit leaves in
   the position *)
Fed(p) == TrailingStop(ssp_in.position, p, 10, 5, 10)[2]

(* C15 as stated: over any sequence of price observations fed to the
   Trailing Stop strategy for one position, highest_price never decreases,
   is at least the entry price, and after each observation with a positive
   price is at least that price. *)
C15_HighestTracksEveryPrice ==
    [][/\ ssp_in'.position.highest_price >= ssp_in.position.highest_price
       /\ \A p \in ObservedPrices :
             /\ Fed(p).highest_price >= ssp_in.position.highest_price
             /\ Fed(p).highest_price # NoPrice
                   => Fed(p).highest_price >= ssp_in.position.entry_price
             /\ p > 0 => Fed(p).highest_price >= p
      ]_vars

(* C15, amended: the same for a position whose entry price is not 0; for a
   position whose entry price is 0 the strategy returns hold and leaves
   highest_price as it was. *)
C15_HighestTracksPriceWhenEntryKnown ==
    [][/\ ssp_in'.position.highest_price >= ssp_in.position.highest_price
       /\ \A p \in ObservedPrices :
             /\ Fed(p).highest_price >= ssp_in.position.highest_price
             /\ Fed(p).highest_price # NoPrice
                   => Fed(p).highest_price >= ssp_in.position.entry_price
             /\ (p > 0 /\ ssp_in.position.entry_price # 0)
                   => Fed(p).highest_price >= p
             /\ ssp_in.position.entry_price = 0
                   => Fed(p) = ssp_in.position
      ]_vars

(* the trailing strategy has seen 155 and then a lower price *)
C15_Witness ==
    /\ ssp_out.done
    /\ ssp_in.position.exit_strategy = "trailing"
    /\ ssp_in.position.entry_price = 100
    /\ ssp_in.position.highest_price = 155
    /\ ssp_in.price = 125

(* C20: every exit decision with should_exit = true, returned by a strategy
   of the exit strategy set or by should_sell_position, carries an exit
   ratio in (0, 1], for every reachable position state, one whose
   total_sold_ratio has reached 1.0 included. *)
C20_ExitRatioInRange ==
    ssp_out.done
    => /\ ssp_out.decision.exit
            => ssp_out.decision.ratio > 0 /\ ssp_out.decision.ratio <= 100
       /\ ssp_out.strategy.exit
            => ssp_out.strategy.ratio > 0 /\ ssp_out.strategy.ratio <= 100

(* ------------------------------------------------------------------ *)
(* _execute_sell_with_retry, one step per attempt                      *)
(* ------------------------------------------------------------------ *)
Impacts == {0, 500, 600, 700, 701}

AttemptInputs ==
    {AttemptInput(FALSE, 0, FALSE, FALSE)} \cup
    {AttemptInput(TRUE, i, st, sn) :
        i \in Impacts, st \in BOOLEAN, sn \in BOOLEAN}

SRInit ==
    /\ now = 0
    /\ BreakerConstructed
    /\ ClientConstructed
    /\ NoEvaluation
    /\ ManagerConstructed

(* the call: a full or partial sell passes MAX_RETRIES, a chunk passes 1 *)
SRCall(max_retries) ==
    /\ sr.pc \in {"idle", "done"}
    /\ TotalFailures(circuit_breaker) < MaxTradeFailures
    /\ sr' = [NoSellAttempt EXCEPT !.pc = "loop", !.max_retries = max_retries]
    /\ UNCHANGED <<now, cbState, request_cache, rr, cs, sb, bot, sspState,
                   tmState, ledgerState>>

(* one iteration of the loop on what the attempt is given *)
SRAttempt(in) ==
    /\ sr.pc = "loop"
    /\ LET kind == AttemptOutcome(in, sr.attempt)
           outs == Append(sr.outs, kind)
           seen == Append(sr.seen, in)
           goes_on == /\ kind # "ok"
                      /\ MoreAttempts(sr.attempt)
                      /\ sr.attempt + 1 < sr.max_retries
       IN IF goes_on
          THEN /\ sr' = [sr EXCEPT !.attempt = @ + 1, !.outs = outs,
                                   !.seen = seen]
               /\ UNCHANGED cbState
          ELSE LET r == SellWithRetry(Manager, outs, 0, sr.max_retries, 0, 0)
               IN /\ sr' = [sr EXCEPT !.pc = "done", !.outs = outs,
                                      !.seen = seen, !.tx = r.tx,
                                      !.err = r.err]
                  /\ circuit_breaker' = r.m.cb
                  /\ last' = NoOp
    /\ UNCHANGED <<now, request_cache, rr, cs, sb, bot, sspState, tmState,
                   ledgerState>>

SRNext ==
    \/ \E max_retries \in {1, MAX_RETRIES} : SRCall(max_retries)
    \/ \E in \in AttemptInputs : SRAttempt(in)

SpecSR == SRInit /\ [][SRNext]_vars

(* the attempt's quote passed _validate_sell_quote *)
Accepted(i) == sr.outs[i] \in {"ok", "tx_fail"}

(* C16: in the sell retry loop the price-impact ceiling is 5% on the first
   attempt and 2 percentage points higher on each further one; a quote is
   accepted on an attempt only if its price impact is at most that
   attempt's ceiling, so a 6% quote is rejected on the first attempt and a
   fresh quote with impact at most 7% is accepted on the second. *)
C16_ImpactCeilingRises ==
    \A i \in 1..Len(sr.seen) :
        /\ Accepted(i)
              => /\ sr.seen[i].quoted
                 /\ sr.seen[i].impact <= 500 + 200 * (i - 1)
        /\ (sr.seen[i].quoted /\ sr.seen[i].impact > 500 + 200 * (i - 1))
              => sr.outs[i] = "high_impact"
        /\ (i = 1 /\ sr.seen[i].quoted /\ sr.seen[i].impact = 600)
              => ~Accepted(i)
        /\ (i = 2 /\ sr.seen[i].quoted /\ ~sr.seen[i].stale
              /\ sr.seen[i].impact <= 700)
              => Accepted(i)

(* a 6% quote was turned down on the first attempt and a fresh 7% quote was
   taken and sent on the second *)
C16_Witness ==
    /\ sr.pc = "done"
    /\ Len(sr.seen) = 2
    /\ sr.seen[1].impact = 600 /\ sr.outs[1] = "high_impact"
    /\ sr.seen[2].impact = 700 /\ sr.outs[2] = "ok"
    /\ sr.tx

(* ------------------------------------------------------------------ *)
(* The position lifecycle: buys, the ledger, confirmation, monitoring  *)
(* and sells                                                           *)
(* ------------------------------------------------------------------ *)

(* what one monitoring pass reads for a token: price, liquidity, 24h volume *)
Reading(p, l, v) == [price |-> p, liquidity |-> l, volume |-> v]

Readings ==
    {Reading(NoData, NoData, NoData), Reading(125, 60000, 60000),
     Reading(85, 60000, 0)}

RpcResults == {"ok", "status_error", "balance_error"}
PartialRatios == {60}
ChunkFailures == {"tx_fail"}

(* k successful chunks *)
OkChunks(k) == [i \in 1..k |-> "ok"]

(* what the passes of a chunk loop run into: successes, then possibly the
   failure that ends the loop *)
ChunkSeqs ==
    {OkChunks(k) : k \in 0..MaxChunks}
        \cup {Append(OkChunks(k), f) : k \in 0..(MaxChunks - 1), f \in ChunkFailures}

HeldFor(pos) == (now - pos.entry_time) * MinutesPerTick

(* the evaluation loop of monitor_positions over keys[i..]: <<m, queue>> *)
RECURSIVE EvaluateFrom(_, _, _, _, _)
EvaluateFrom(m, keys, i, rd, queue) ==
    IF i > Len(keys)
    THEN <<m, queue>>
    ELSE LET t == keys[i]
             pos == m.active[t]
         IN IF pos.status \notin {"open", "closing"}
            THEN EvaluateFrom(m, keys, i + 1, rd, queue)
            ELSE LET r == ShouldSellPosition(pos, rd[t].price, rd[t].liquidity,
                                             rd[t].volume, HeldFor(pos))
                     m1 == [m EXCEPT !.active[t] = r[2]]
                 IN EvaluateFrom(m1, keys, i + 1, rd,
                        IF r[1].exit
                        THEN Append(queue, [token |-> t, reason |-> r[1].reason,
                                            ratio |-> r[1].ratio])
                        ELSE queue)

(* the state a call leaves behind *)
Commit(r, op, arg) ==
    /\ r.result # "undetermined"
    /\ Len(r.m.history) <= MaxHistory
    /\ TotalFailures(r.m.cb) <= MaxTradeFailures
    /\ active_positions' = r.m.active
    /\ trade_history' = r.m.history
    /\ circuit_breaker' = r.m.cb
    /\ wallet_tokens' = r.m.tokens
    /\ last' = Called(op, arg, r.gate, r.m.alerts)

Init ==
    /\ now = 0
    /\ BreakerConstructed
    /\ ClientConstructed
    /\ NoEvaluation
    /\ ManagerConstructed

ExecuteSniperBuy(t, td, funds_ok, outs) ==
    /\ sell_queue = << >>
    /\ LET r == ExecuteSniperBuyOp(Manager, t, td, funds_ok, outs,
                                   Len(tx_status) + 1)
       IN /\ Commit(r, "execute_sniper_buy", t)
          /\ r.result = "success" => Len(tx_status) < MaxPositions
          /\ tx_status' = IF r.result = "success"
                          THEN Append(tx_status,
                                      [token |-> t, status |-> "pending"])
                          ELSE tx_status
    /\ UNCHANGED <<now, rrState, sspState, sell_queue>>

(* the ledger settles the buy transaction tx_id *)
LedgerSettle(tx_id, outcome, received) ==
    /\ tx_status[tx_id].status = "pending"
    /\ tx_status' = [tx_status EXCEPT ![tx_id].status = outcome]
    /\ wallet_tokens' =
         IF outcome = "confirmed"
         THEN [wallet_tokens EXCEPT ![tx_status[tx_id].token] = @ + received]
         ELSE wallet_tokens
    /\ last' = NoOp
    /\ UNCHANGED <<now, circuit_breaker, rrState, sspState, tmState>>

ConfirmPending(rpc) ==
    /\ sell_queue = << >>
    /\ Commit(Returned(ConfirmPendingTransactions(Manager, tx_status, rpc),
                       "none", 0, 0),
              "none", "none")
    /\ UNCHANGED <<now, rrState, sspState, sell_queue, tx_status>>

MonitorPositions(rpc, rd) ==
    /\ sell_queue = << >>
    /\ \E m1 \in {ConfirmPendingTransactions(Manager, tx_status, rpc)} :
       \E e \in {EvaluateFrom(m1, ActiveKeys(m1), 1, rd, << >>)} :
       \E r \in {Returned(e[1], "none", 0, 0)} :
          /\ Commit(r, "none", "none")
          /\ sell_queue' = e[2]
    /\ UNCHANGED <<now, rrState, sspState, tx_status>>

(* the next sell of the loop of monitor_positions or close_all_positions;
   an exception leaves the loop *)
QueuedSell(outs, couts, rpc_ok) ==
    /\ sell_queue # << >>
    /\ LET e == Head(sell_queue)
           partial == e.ratio < 100
           r == IF partial
                THEN IF outs = << >> \/ couts # << >>
                     THEN Returned(Manager, "undetermined", 0, 0)
                     ELSE ExecutePartialSellOp(Manager, e.token, e.ratio, outs,
                                               rpc_ok)
                ELSE ExecuteSniperSellOp(Manager, e.token, outs, couts, rpc_ok)
       IN /\ Commit(r, IF partial THEN "execute_partial_sell"
                                  ELSE "execute_sniper_sell", e.token)
          /\ sell_queue' = IF r.result = "TypeError"
                           THEN << >>
                           ELSE Tail(sell_queue)
    /\ UNCHANGED <<now, rrState, sspState, tx_status>>

ExecutePartialSell(t, exit_ratio, outs, rpc_ok) ==
    /\ sell_queue = << >>
    /\ Commit(ExecutePartialSellOp(Manager, t, exit_ratio, outs, rpc_ok),
              "execute_partial_sell", t)
    /\ UNCHANGED <<now, rrState, sspState, sell_queue, tx_status>>

ExecuteSniperSell(t, outs, couts, rpc_ok) ==
    /\ sell_queue = << >>
    /\ Commit(ExecuteSniperSellOp(Manager, t, outs, couts, rpc_ok),
              "execute_sniper_sell", t)
    /\ UNCHANGED <<now, rrState, sspState, sell_queue, tx_status>>

CloseAllPositions ==
    /\ sell_queue = << >>
    /\ LET keys == ActiveKeys(Manager)
       IN sell_queue' = [i \in 1..Len(keys) |->
                           [token |-> keys[i], reason |-> "shutdown",
                            ratio |-> 100]]
    /\ last' = NoOp
    /\ UNCHANGED <<now, circuit_breaker, rrState, sspState, active_positions,
                   trade_history, ledgerState>>

SetPositionStrategy(t, strategy_name) ==
    /\ sell_queue = << >>
    /\ active_positions[t] # NoPosition
    /\ active_positions' =
         [active_positions EXCEPT ![t].exit_strategy = strategy_name]
    /\ last' = NoOp
    /\ UNCHANGED <<now, circuit_breaker, rrState, sspState, trade_history,
                   sell_queue, ledgerState>>

(* readings and RPC results matter only for tokens that have an entry *)
ForActive(S, default) ==
    {f \in [Tokens -> S] :
        \A t \in Tokens : active_positions[t] = NoPosition => f[t] = default}

(* the runs of the retry loops and of the chunk loop that the lifecycle
   is explored with *)
BuyRuns ==
    {<<"ok">>, <<"stale_quote", "stale_quote">>, <<"send_error", "send_error">>}
SellRuns == {<<"ok">>, <<"tx_fail", "tx_fail">>}
SellScripts ==
    {[outs |-> o, couts |-> << >>] : o \in SellRuns}
        \cup {[outs |-> << >>, couts |-> c] : c \in ChunkSeqs}
        \cup {[outs |-> <<"high_impact", "high_impact">>, couts |-> c] :
                 c \in ChunkSeqs}

Next ==
    \/ \E t \in Tokens, td \in TokenData, funds_ok \in BOOLEAN, outs \in BuyRuns :
          ExecuteSniperBuy(t, td, funds_ok, outs)
    \/ \E tx_id \in 1..Len(tx_status), outcome \in {"confirmed", "failed"},
          received \in {0, QuoteOutAmount} :
          LedgerSettle(tx_id, outcome, received)
    \/ \E rpc \in ForActive(RpcResults, "ok") : ConfirmPending(rpc)
    \/ \E rpc \in ForActive(RpcResults, "ok"),
          rd \in ForActive(Readings, Reading(NoData, NoData, NoData)) :
          MonitorPositions(rpc, rd)
    \/ \E s \in SellScripts, rpc_ok \in BOOLEAN :
          QueuedSell(s.outs, s.couts, rpc_ok)
    \/ \E t \in Tokens, exit_ratio \in PartialRatios, outs \in SellRuns,
          rpc_ok \in BOOLEAN :
          ExecutePartialSell(t, exit_ratio, outs, rpc_ok)
    \/ \E t \in Tokens, s \in SellScripts, rpc_ok \in BOOLEAN :
          ExecuteSniperSell(t, s.outs, s.couts, rpc_ok)
    \/ CloseAllPositions
    \/ \E t \in Tokens : SetPositionStrategy(t, "scaled")

Spec == Init /\ [][Next]_vars

(* ------------------------------------------------------------------ *)
(* Claims about the position lifecycle                                *)
(* ------------------------------------------------------------------ *)
Terminal == {"closed", "failed", "timeout"}
Live == {"pending", "open", "closing"}
Held == {t \in Tokens : active_positions[t] # NoPosition}

(* the records the step appends to the history *)
Appended == {i \in (Len(trade_history) + 1)..Len(trade_history') : TRUE}

(* C1: after any sequence of buy, confirm, monitor, partial-sell, full-sell
   and chunked-sell operations, direct calls of execute_partial_sell
   included, every position has 0 <= total_sold_ratio <= 1 and
   remaining_tokens >= 0. *)
C1_SoldRatioAndRemainingInRange ==
    \A t \in Held :
        /\ 0 <= active_positions[t].total_sold_ratio
        /\ active_positions[t].total_sold_ratio <= 100
        /\ active_positions[t].remaining_tokens >= 0

(* the status a position held before the step has after it: that of its
   entry in the map, or that of the snapshot the step put in the history
   when it took the entry out *)
StatusAfter(t) ==
    IF active_positions'[t].tx_id = active_positions[t].tx_id
    THEN active_positions'[t].status
    ELSE LET i == CHOOSE j \in Appended :
                      trade_history'[j].tx_id = active_positions[t].tx_id
         IN trade_history'[i].status

AllowedTransitions ==
    {<<"pending", "open">>, <<"pending", "failed">>, <<"pending", "timeout">>,
     <<"open", "closing">>, <<"open", "closed">>, <<"open", "failed">>,
     <<"closing", "closed">>, <<"closing", "failed">>}

(* C3: every status change of a position, under any sequence of public
   operations, is one of pending -> open | failed | timeout,
   open -> closing | closed | failed, closing -> closed | failed; a pending
   position is never moved to closing or closed. *)
C3_OnlyListedTransitions ==
    [][\A t \in Held :
         \/ StatusAfter(t) = active_positions[t].status
         \/ <<active_positions[t].status, StatusAfter(t)>> \in AllowedTransitions
      ]_vars

(* C2: a position whose status is closed, failed or timeout is out of the
   active map and in the history from the very operation that made it
   terminal: the map holds live positions only, an entry leaves the map
   only together with a terminal snapshot of it appended to the history,
   the history only grows, and no entry of the map carries the transaction
   id of a terminal snapshot, so no later operation reaches the position. *)
C2_TerminalIsFinal ==
    [][/\ \A t \in Tokens :
             active_positions'[t] # NoPosition
                 => active_positions'[t].status \in Live
       /\ Len(trade_history') >= Len(trade_history)
       /\ SubSeq(trade_history', 1, Len(trade_history)) = trade_history
       /\ \A t \in Held :
             active_positions'[t].tx_id # active_positions[t].tx_id
                 => /\ active_positions'[t] = NoPosition
                    /\ \E i \in Appended :
                          /\ trade_history'[i].tx_id = active_positions[t].tx_id
                          /\ trade_history'[i].status \in Terminal
       /\ \A i \in Appended :
             trade_history'[i].status \in Terminal
                 => \E t \in Held :
                       /\ active_positions[t].tx_id = trade_history'[i].tx_id
                       /\ active_positions'[t] = NoPosition
       /\ \A t \in Tokens, i \in 1..Len(trade_history') :
             trade_history'[i].status \in Terminal
                 => active_positions'[t].tx_id # trade_history'[i].tx_id
      ]_vars

AnyBuyRun == AttemptSeqs(BuyAttemptOutcomes, MAX_RETRIES)
AnySellRun == AttemptSeqs(SellAttemptOutcomes, MAX_RETRIES) \cup {<< >>}

(* C17: when a full sell or a partial sell exhausts its retries without any
   transaction having been submitted, the position stays in the active map
   with the status, remaining quantity and sold ratio it had before the
   call. *)
C17_FailedSellKeepsPosition ==
    \A t \in Held, outs \in AnySellRun \ {<< >>}, rpc_ok \in BOOLEAN :
        LET f == ExecuteSniperSellOp(Manager, t, outs, << >>, rpc_ok)
            p == ExecutePartialSellOp(Manager, t, 60, outs, rpc_ok)
        IN /\ (f.result = "failed" /\ f.submits = 0)
                 => f.m.active[t] = active_positions[t]
           /\ (p.result = "failed" /\ p.submits = 0)
                 => p.m.active[t] = active_positions[t]

(* C18: whenever execute_sniper_buy returns a failure, a rejection before
   the retry loop or a failure at any step of any attempt, the active map
   and the history are exactly as before the call; a position is created
   only after a submission was accepted with a transaction id, and it is
   created with status pending. *)
C18_FailedBuyLeavesNoTrace ==
    \A t \in Tokens, td \in TokenData, funds_ok \in BOOLEAN, outs \in AnyBuyRun :
        LET tx_id == Len(tx_status) + 1
            r == ExecuteSniperBuyOp(Manager, t, td, funds_ok, outs, tx_id)
        IN /\ r.result # "success"
                 => /\ r.m.active = active_positions
                    /\ r.m.history = trade_history
           /\ r.m.active # active_positions
                 => /\ r.result = "success"
                    /\ r.submits >= 1
                    /\ active_positions[t] = NoPosition
                    /\ r.m.active[t].status = "pending"
                    /\ r.m.active[t].tx_id = tx_id
                    /\ \A u \in Tokens \ {t} :
                          r.m.active[u] = active_positions[u]
                    /\ r.m.history =
                          Append(trade_history,
                                 HistoryRecord(r.m.active[t], "buy"))

(* a buy has passed the breaker and failed: nothing is held and nothing is
   in the history *)
C18_Witness ==
    /\ last.op = "execute_sniper_buy"
    /\ last.result = "False"
    /\ active_positions[last.arg] = NoPosition
    /\ trade_history = << >>
    /\ tx_status = << >>

(* C19: a buy for a token address that is already a key of the active map,
   whatever the position's status, is rejected without requesting a quote
   or submitting a transaction and without overwriting the position; hence
   there is at most one active position per token address: every position
   ever bought is the one its token's entry holds or has left the map with
   a terminal snapshot in the history, none was overwritten. *)
C19_NoSecondBuy ==
    /\ \A t \in Held, td \in TokenData, funds_ok \in BOOLEAN,
          outs \in AnyBuyRun :
          LET r == ExecuteSniperBuyOp(Manager, t, td, funds_ok, outs,
                                      Len(tx_status) + 1)
          IN /\ r.result # "success"
             /\ r.quotes = 0
             /\ r.submits = 0
             /\ r.m.active = active_positions
             /\ r.m.history = trade_history
    /\ \A id \in 1..Len(tx_status) :
          \/ active_positions[tx_status[id].token].tx_id = id
          \/ \E i \in 1..Len(trade_history) :
                /\ trade_history[i].tx_id = id
                /\ trade_history[i].status \in Terminal

(* a buy was made for a token whose position is still pending, and the
   position is as it was *)
C19_Witness ==
    /\ last.op = "execute_sniper_buy"
    /\ last.result = "False"
    /\ last.arg \in Held
    /\ active_positions[last.arg].status = "pending"
    /\ Len(trade_history) = 1
    /\ Len(tx_status) = 1
    /\ tx_status[1].status = "confirmed"

(* a position closed by a sell and, after it, a new position on the same
   token *)
C2_Witness ==
    \E t \in Held, i \in 1..Len(trade_history) :
        /\ trade_history[i].status = "closed"
        /\ trade_history[i].tx_id < active_positions[t].tx_id
        /\ active_positions[t].status = "open"

(* C9: for every pending position, a confirmation pass whose poll answers
   confirmed while the on-chain token balance is 0 sets status failed with
   reason no_tokens_received, takes the position out of the active map and
   appends a failed_buy record in that same pass (that of
   confirm_pending_transactions, and that at the head of monitor_positions,
   which leaves the position out and queues no sell for it); the position
   never becomes open. *)
C9_ConfirmedWithoutTokensFails ==
    \A t \in Held, rpc \in [Tokens -> RpcResults], rd \in [Tokens -> Readings] :
        (/\ active_positions[t].status = "pending"
         /\ rpc[t] # "status_error"
         /\ tx_status[active_positions[t].tx_id].status = "confirmed"
         /\ wallet_tokens[t] = 0)
        => LET m == ConfirmPendingTransactions(Manager, tx_status, rpc)
               failed == [active_positions[t] EXCEPT
                            !.confirmation_attempts = @ + 1,
                            !.status = "failed",
                            !.failure_reason = "no_tokens_received"]
               e == EvaluateFrom(m, ActiveKeys(m), 1, rd, << >>)
           IN /\ m.active[t] = NoPosition
              /\ \E i \in (Len(trade_history) + 1)..Len(m.history) :
                     m.history[i] = HistoryRecord(failed, "failed_buy")
              /\ SubSeq(m.history, 1, Len(trade_history)) = trade_history
              /\ e[1].active[t] = NoPosition
              /\ \A k \in 1..Len(e[2]) : e[2][k].token # t

(* a buy that was confirmed with no tokens in the wallet has been failed by
   a confirmation pass *)
C9_Witness ==
    \E i \in 1..Len(trade_history) :
        /\ trade_history[i].action = "failed_buy"
        /\ trade_history[i].failure_reason = "no_tokens_received"
        /\ tx_status[trade_history[i].tx_id].status = "confirmed"
        /\ wallet_tokens[tx_status[trade_history[i].tx_id].token] = 0
        /\ active_positions[tx_status[trade_history[i].tx_id].token] = NoPosition

(* C22: a position's remaining token quantity never increases over its
   whole life: from the value recorded at buy submission, through
   confirmation (where it is replaced by the tokens actually received),
   through every partial sell and its reconciliation with the on-chain
   balance. *)
C22_RemainingNeverIncreases ==
    [][\A t \in Held :
         active_positions'[t].tx_id = active_positions[t].tx_id
             => active_positions'[t].remaining_tokens
                    <= active_positions[t].remaining_tokens
      ]_vars

SellRatios == {1, 25, 60, 99, 100}

(* what a successful execute_partial_sell(t, exit_ratio) leaves, where the
   token balance the position is reconciled with is the wallet's balance
   after the sale (as_read FALSE) or what get_token_balance returns for it,
   which is 0 when the read fails (as_read TRUE) *)
PartialSellLeaves(t, exit_ratio, outs, rpc_ok, as_read) ==
    LET before == active_positions[t]
        R == before.remaining_tokens
        s == (DustReduced(R) * exit_ratio) \div 100
        r == ExecutePartialSellOp(Manager, t, exit_ratio, outs, rpc_ok)
        after == r.m.active[t]
        on_chain == Max(0, wallet_tokens[t] - s)
        balance == IF as_read /\ ~rpc_ok THEN 0 ELSE on_chain
        sold == before.total_sold_ratio + exit_ratio
        remaining == Min(Max(0, R - s), balance)
    IN r.result = "success"
         => /\ after.total_sold_ratio = sold
            /\ after.remaining_tokens = remaining
            /\ after.status = IF sold >= 99 \/ remaining < 100
                              THEN "closing"
                              ELSE before.status
            /\ after = [before EXCEPT !.total_sold_ratio = sold,
                                      !.remaining_tokens = remaining,
                                      !.status = after.status]
            /\ r.m.tokens[t] = on_chain
            /\ r.m.history =
                  Append(trade_history, HistoryRecord(after, "partial_sell"))

(* C23: after a successful partial sell with ratio r of a position whose
   remaining quantity was R and sold amount was s: total_sold_ratio has
   grown by exactly r, remaining_tokens equals min(max(0, R - s), on-chain
   token balance), the status is closing if the sold ratio is at least 0.99
   or the remaining quantity is below the dust level and is otherwise
   unchanged, the position is still in the active map, and one partial_sell
   record has been appended to the history. *)
C23_PartialSellBookkeeping ==
    \A t \in Held, exit_ratio \in SellRatios, outs \in AnySellRun \ {<< >>},
       rpc_ok \in BOOLEAN :
        PartialSellLeaves(t, exit_ratio, outs, rpc_ok, FALSE)

(* C23, amended: the same, with remaining_tokens equal to
   min(max(0, R - s), the token balance get_token_balance returns), a
   balance that is 0 when the read fails. *)
C23_PartialSellBookkeepingAsRead ==
    \A t \in Held, exit_ratio \in SellRatios, outs \in AnySellRun \ {<< >>},
       rpc_ok \in BOOLEAN :
        PartialSellLeaves(t, exit_ratio, outs, rpc_ok, TRUE)

(* a partial sell of 0.6 has succeeded and its balance read has failed: the
   position is still held, closing, with nothing remaining in its books
   while the wallet holds tokens *)
C23_Witness ==
    /\ last.op = "execute_partial_sell"
    /\ last.arg \in Held
    /\ trade_history[Len(trade_history)].action = "partial_sell"
    /\ active_positions[last.arg].total_sold_ratio = 60
    /\ active_positions[last.arg].status = "closing"
    /\ active_positions[last.arg].remaining_tokens = 0
    /\ wallet_tokens[last.arg] > 0

(* the runs of a retry loop in which every one of the MAX_RETRIES attempts
   fails *)
ExhaustedSellRuns ==
    {outs \in AnySellRun :
        Len(outs) = MAX_RETRIES /\ \A i \in 1..Len(outs) : outs[i] # "ok"}

(* execute_sniper_sell(t) gets as far as its retry loop: the breaker lets
   it pass, the wallet holds tokens and the sell is not chunked from the
   start *)
ReachesSellLoop(t, rpc_ok) ==
    /\ CheckIfPaused(circuit_breaker, now)[2] = "False"
    /\ DustReduced(TokenBalanceRead(Manager, t, rpc_ok)) > 0
    /\ ~ShouldChunkSell(DustReduced(TokenBalanceRead(Manager, t, rpc_ok)),
                        active_positions[t])[1]

SellFailures(cb) == Len(cb.failures["sell"])

(* C27: when a full sell run with the default retry bound exhausts its
   retries: if the last failure was a high-price-impact quote rejection,
   the chunked sell is started for the position (which it closes, with a
   chunked_sell record and no sell failure recorded); for every other
   failure the position is marked failed and exactly one sell failure is
   recorded in the circuit breaker. *)
C27_ExhaustedFullSell ==
    \A t \in Held, outs \in ExhaustedSellRuns, couts \in ChunkSeqs,
       rpc_ok \in BOOLEAN :
        ReachesSellLoop(t, rpc_ok) =>
          LET r == ExecuteSniperSellOp(Manager, t, outs, couts, rpc_ok)
              added == SubSeq(r.m.history, Len(trade_history) + 1,
                              Len(r.m.history))
          IN IF outs[MAX_RETRIES] = "high_impact"
             THEN r.result # "undetermined"
                    => /\ r.result = "success"
                       /\ r.m.active[t] = NoPosition
                       /\ Len(added) = 1
                       /\ added[1].action = "chunked_sell"
                       /\ added[1].status = "closed"
                       /\ SellFailures(r.m.cb) = SellFailures(circuit_breaker)
             ELSE /\ r.result = "failed"
                  /\ r.m.active[t] = NoPosition
                  /\ added = <<HistoryRecord(
                                 [active_positions[t] EXCEPT !.status = "failed"],
                                 "failed_sell")>>
                  /\ SellFailures(r.m.cb) = SellFailures(circuit_breaker) + 1
                  /\ r.m.cb.failures["buy"] = circuit_breaker.failures["buy"]
                  /\ r.m.cb.failures["rpc"] = circuit_breaker.failures["rpc"]

(* a full sell has exhausted its retries on a failure other than high price
   impact: the position is gone, recorded as a failed sell, and the breaker
   holds one sell failure *)
C27_Witness ==
    /\ last.op = "execute_sniper_sell"
    /\ last.result = "False"
    /\ active_positions[last.arg] = NoPosition
    /\ trade_history[Len(trade_history)].action = "failed_sell"
    /\ trade_history[Len(trade_history)].status = "failed"
    /\ SellFailures(circuit_breaker) = 1
    /\ wallet_tokens[last.arg] = QuoteOutAmount

(* what wallet.get_transaction_status and wallet.get_token_balance can give
   one confirmation pass: the ledger's answer, "unknown", "error", or the
   ledger's answer with a failed balance read *)
PollAnswers == RpcResults \cup {"status_unknown"}

(* C21: every pending position leaves the pending status within a bounded
   number of confirmation passes whatever the ledger answers on each poll
   (pending, unknown or error): a position still pending has been polled at
   most MaxConfirmationAttempts times, every pass adds one to its counter,
   and the pass that takes the counter past MaxConfirmationAttempts without
   a confirmed or failed answer makes it timeout; the position becomes
   open, failed or timeout, and a non-open outcome is removed from the
   active map and appended to the history in that same pass. *)
C21_PendingLeavesWithinBound ==
    \A t \in Held :
        active_positions[t].status = "pending" =>
          /\ active_positions[t].confirmation_attempts <= MaxConfirmationAttempts
          /\ \A rpc \in [Tokens -> PollAnswers] :
                LET before == active_positions[t]
                    m == ConfirmPendingTransactions(Manager, tx_status, rpc)
                    after == m.active[t]
                    unresolved ==
                        \/ rpc[t] \in {"status_error", "status_unknown"}
                        \/ tx_status[before.tx_id].status = "pending"
                    recorded ==
                        {i \in (Len(trade_history) + 1)..Len(m.history) :
                            m.history[i].tx_id = before.tx_id}
                IN /\ SubSeq(m.history, 1, Len(trade_history)) = trade_history
                   /\ after # NoPosition
                         => /\ after.status \in {"pending", "open"}
                            /\ after.tx_id = before.tx_id
                            /\ after.confirmation_attempts
                                   = before.confirmation_attempts + 1
                            /\ recorded = {}
                   /\ after.status = "pending"
                         => /\ unresolved
                            /\ after.confirmation_attempts
                                   <= MaxConfirmationAttempts
                   /\ after = NoPosition
                         => /\ Cardinality(recorded) = 1
                            /\ \A i \in recorded :
                                  /\ m.history[i].action = "failed_buy"
                                  /\ m.history[i].status \in {"failed", "timeout"}
                                  /\ m.history[i].status = "timeout"
                                         <=> unresolved
                   /\ (unresolved /\ before.confirmation_attempts
                                         = MaxConfirmationAttempts)
                         => after = NoPosition

(* a buy whose transaction the ledger never settled has been given up by a
   confirmation pass: out of the map, in the history as timeout *)
C21_Witness ==
    \E i \in 1..Len(trade_history) :
        /\ trade_history[i].action = "failed_buy"
        /\ trade_history[i].status = "timeout"
        /\ trade_history[i].failure_reason = "confirmation_timeout"
        /\ tx_status[trade_history[i].tx_id].status = "pending"
        /\ active_positions[tx_status[trade_history[i].tx_id].token] = NoPosition

(* ------------------------------------------------------------------ *)
(* The entry points behind the breaker, with time passing              *)
(* ------------------------------------------------------------------ *)
GateBuyRuns == {<<"ok">>, <<"exception", "exception">>}
GateSellRuns == {<<"ok">>, <<"tx_fail", "tx_fail">>}
GateTokenData == {[price |-> 100, liquidity |-> 50000, volume_24h |-> 60000]}

GateNext ==
    \/ Tick
    \/ \E t \in Tokens, td \in GateTokenData, outs \in GateBuyRuns :
          ExecuteSniperBuy(t, td, TRUE, outs)
    \/ \E tx_id \in 1..Len(tx_status) :
          LedgerSettle(tx_id, "confirmed", QuoteOutAmount)
    \/ \E t \in Tokens, exit_ratio \in PartialRatios, outs \in GateSellRuns :
          ExecutePartialSell(t, exit_ratio, outs, TRUE)
    \/ \E t \in Tokens, outs \in GateSellRuns :
          ExecuteSniperSell(t, outs, << >>, TRUE)

SpecGate == Init /\ [][GateNext]_vars

PausedNow ==
    /\ circuit_breaker.is_paused
    /\ now - circuit_breaker.pause_start_time <= PauseDuration

(* the call was turned away: nothing quoted, nothing submitted, the active
   map, every position and the history as they were *)
TurnedAway(r, result) ==
    /\ r.result = result
    /\ r.quotes = 0
    /\ r.submits = 0
    /\ r.m.active = active_positions
    /\ r.m.history = trade_history

(* C6: while the breaker is paused and the pause has not expired,
   execute_sniper_buy, execute_sniper_sell and execute_partial_sell each
   return a rejection without requesting a quote or submitting anything and
   leave the active map, every position and the history unchanged, whatever
   their arguments and whatever the exchange would have answered. *)
C6_PausedEntryPointsReject ==
    PausedNow =>
      /\ \A t \in Tokens, td \in TokenData, funds_ok \in BOOLEAN,
            outs \in AttemptSeqs(BuyAttemptOutcomes, MAX_RETRIES) :
            TurnedAway(ExecuteSniperBuyOp(Manager, t, td, funds_ok, outs,
                                          Len(tx_status) + 1), "paused")
      /\ \A t \in Tokens, outs \in AnySellRun, couts \in ChunkSeqs,
            rpc_ok \in BOOLEAN :
            TurnedAway(ExecuteSniperSellOp(Manager, t, outs, couts, rpc_ok),
                       IF t \in Held THEN "paused" ELSE "no_position")
      /\ \A t \in Tokens, exit_ratio \in {1, 25, 60, 100}, outs \in AnySellRun,
            rpc_ok \in BOOLEAN :
            TurnedAway(ExecutePartialSellOp(Manager, t, exit_ratio, outs, rpc_ok),
                       IF t \in Held THEN "paused" ELSE "no_position")

(* a sell of a held position with tokens in the wallet has just been turned
   away at the last moment of the pause *)
C6_Witness ==
    /\ last.op = "execute_sniper_sell"
    /\ last.result = "True"
    /\ last.arg \in Held
    /\ wallet_tokens[last.arg] > 0
    /\ circuit_breaker.is_paused
    /\ now - circuit_breaker.pause_start_time = PauseDuration

(* ------------------------------------------------------------------ *)
(* _execute_chunked_sell, one step per pass of its loop                *)
(* ------------------------------------------------------------------ *)
CSInit ==
    /\ now = 0
    /\ BreakerConstructed
    /\ ClientConstructed
    /\ NoEvaluation
    /\ ManagerConstructed

(* no chunked sell is running: the manager's thread is free for a call *)
CSIdle == cs.pc \in {"idle", "done"}

(* the call, as execute_sniper_sell makes it: with the chunk size of
   _should_chunk_sell or, after a high-impact failure of the full sell,
   with CHUNK_SIZE_RATIO of the balance; the native balance is read first.
   While the loop runs the ledger either takes every chunk sent out of the
   wallet before the next balance read (ledger_settles) or has not settled
   any of them yet, so that the token balance never decreases. *)
CSStart(t, sol_read_ok, ledger_settles) ==
    /\ CSIdle
    /\ HasPosition(Manager, t)
    /\ LET token_balance == DustReduced(wallet_tokens[t])
           chunk == ShouldChunkSell(token_balance, active_positions[t])
       IN /\ token_balance > 0
          /\ cs' = [NoChunkedSell EXCEPT
                      !.pc = "loop",
                      !.token = t,
                      !.chunk_size =
                          IF chunk[1]
                          THEN chunk[2]
                          ELSE (token_balance * CHUNK_SIZE_RATIO) \div 100,
                      !.sol = cs.sol,
                      !.sol_at_start = cs.sol,
                      !.initial_sol_balance = SolBalanceRead(cs.sol, sol_read_ok),
                      !.history_at_start = Len(trade_history),
                      !.ledger_settles = ledger_settles]
    /\ last' = NoOp
    /\ UNCHANGED <<now, circuit_breaker, request_cache, rr, sr, sb, bot, sspState,
                   tmState, ledgerState>>

(* one pass of the loop: the balance read answers or fails and the chunk's
   attempt runs into o *)
CSPass(o, balance_read_ok) ==
    /\ cs.pc = "loop"
    /\ LET t == cs.token
           p == ChunkPass(Manager, cs.chunk_size, cs.chunks_completed,
                          TokenBalanceRead(Manager, t, balance_read_ok), o, 0, 0)
           settled == cs.ledger_settles /\ p.sold > 0
       IN /\ cs' = [cs EXCEPT
                      !.pc = IF p.go = "break" THEN "finalize" ELSE "loop",
                      !.chunk_size = p.chunk_size,
                      !.chunks_completed = p.chunks_completed,
                      !.outcome = IF p.asked THEN o ELSE "none",
                      !.sol = IF settled THEN @ + p.sold ELSE @]
          /\ wallet_tokens' = IF settled
                              THEN Debit(Manager, t, p.sold).tokens
                              ELSE wallet_tokens
          /\ circuit_breaker' = p.m.cb
    /\ last' = NoOp
    /\ UNCHANGED <<now, request_cache, rr, sr, sb, bot, sspState, tmState, tx_status>>

(* after the loop: the native balance is read again and the position is
   finalized *)
CSFinalize(sol_read_ok) ==
    /\ cs.pc = "finalize"
    /\ LET final_sol_balance == SolBalanceRead(cs.sol, sol_read_ok)
           m == FinalizeSellPosition(Manager, cs.token, "chunked_sell")
       IN /\ cs' = [cs EXCEPT
                      !.pc = "done",
                      !.final_sol_balance = final_sol_balance,
                      !.received = Received(final_sol_balance,
                                            cs.initial_sol_balance)]
          /\ active_positions' = m.active
          /\ trade_history' = m.history
    /\ last' = NoOp
    /\ UNCHANGED <<now, circuit_breaker, request_cache, rr, sr, sb, bot, sspState,
                   sell_queue, ledgerState>>

CSNext ==
    \/ \E t \in Tokens, td \in TokenData :
          /\ CSIdle
          /\ tx_status = << >>
          /\ ExecuteSniperBuy(t, td, TRUE, <<"ok">>)
    \/ \E tx_id \in 1..Len(tx_status) :
          LedgerSettle(tx_id, "confirmed", QuoteOutAmount)
    \/ \E rpc \in ForActive({"ok"}, "ok") : CSIdle /\ ConfirmPending(rpc)
    \/ \E t \in Tokens, sol_read_ok \in BOOLEAN, ledger_settles \in BOOLEAN :
          CSStart(t, sol_read_ok, ledger_settles)
    \/ \E o \in SellAttemptOutcomes, balance_read_ok \in BOOLEAN :
          CSPass(o, balance_read_ok)
    \/ \E sol_read_ok \in BOOLEAN : CSFinalize(sol_read_ok)

SpecCS == CSInit /\ [][CSNext]_vars

(* the loop and the finalization are straight-line code of one thread: a
   pass that can run does run *)
SpecCSLive ==
    /\ SpecCS
    /\ WF_vars(\E o \in SellAttemptOutcomes, balance_read_ok \in BOOLEAN :
                  CSPass(o, balance_read_ok))
    /\ WF_vars(\E sol_read_ok \in BOOLEAN : CSFinalize(sol_read_ok))

(* C24: during a chunked sell, when a chunk is rejected because its quote's
   price impact is too high and the chunk size is above the minimum chunk
   size, the chunk size is halved (never below the minimum) and the loop
   tries again with the smaller chunk instead of stopping the chunked
   sell. *)
C24_HighImpactHalvesChunk ==
    [][(/\ cs.pc = "loop"
        /\ cs' # cs
        /\ cs'.outcome = "high_impact"
        /\ cs.chunk_size > MIN_CHUNK_SIZE)
       => (/\ cs'.pc = "loop"
           /\ cs'.chunk_size = Max(cs.chunk_size \div 2, MIN_CHUNK_SIZE)
           /\ cs'.chunk_size >= MIN_CHUNK_SIZE)
      ]_vars

(* what every chunked sell leaves when it has ended, whatever its chunks
   ran into: the position closed, out of the active map, and one
   chunked_sell record more in the history *)
ChunkedSellFinalized ==
    /\ cs.pc \in {"loop", "finalize"}
          => /\ active_positions[cs.token] # NoPosition
             /\ Len(trade_history) = cs.history_at_start
    /\ cs.pc = "done"
          => /\ active_positions[cs.token] = NoPosition
             /\ Len(trade_history) = cs.history_at_start + 1
             /\ trade_history[Len(trade_history)].action = "chunked_sell"
             /\ trade_history[Len(trade_history)].status = "closed"
             /\ tx_status[trade_history[Len(trade_history)].tx_id].token
                    = cs.token

(* C25: every chunked sell started on an active position ends with that
   position in status closed, removed from the active map, and exactly one
   chunked_sell record appended to the history whose received amount is the
   native-balance difference between the end and the start of the chunked
   sell, regardless of how many chunks failed. *)
C25_ChunkedSellAlwaysFinalizes ==
    /\ ChunkedSellFinalized
    /\ cs.pc = "done" => cs.received = cs.sol - cs.sol_at_start

(* C25, amended: the same, with the received amount equal to the difference
   between what the wallet's native-balance read returned at the end and at
   the start of the chunked sell, each of them the balance or, when the
   read failed, 0. *)
C25_ChunkedSellAlwaysFinalizesAsRead ==
    /\ ChunkedSellFinalized
    /\ cs.pc = "done"
          => /\ cs.received = cs.final_sol_balance - cs.initial_sol_balance
             /\ cs.initial_sol_balance \in {cs.sol_at_start, 0}
             /\ cs.final_sol_balance \in {cs.sol, 0}

(* a chunked sell has ended after one chunk was sold and the next failed:
   tokens are left in the wallet, the final read of the native balance
   failed, and the position is closed and gone *)
C25_Witness ==
    /\ cs.pc = "done"
    /\ cs.chunks_completed = 1
    /\ cs.outcome = "tx_fail"
    /\ wallet_tokens[cs.token] > 0
    /\ cs.sol > cs.sol_at_start
    /\ cs.initial_sol_balance = cs.sol_at_start
    /\ cs.final_sol_balance = 0
    /\ active_positions[cs.token] = NoPosition

(* C26: the chunked-sell loop terminates for every behaviour of the ledger
   and the quote service, including a token balance that never decreases
   while every chunk is reported as submitted, and including repeated
   high-price-impact rejections: the count of chunks sold stays within the
   bound at which the per-chunk dust reduction reaches zero, the chunk size
   never grows, and a loop that has started reaches the end of the call. *)
C26_ChunkLoopTerminates ==
    /\ [](2 * cs.chunks_completed <= DUST_REDUCTION_FACTOR + 1)
    /\ [][cs.pc = "loop" /\ cs'.pc = "loop" /\ cs' # cs
             => \/ /\ cs'.chunks_completed = cs.chunks_completed + 1
                   /\ cs'.chunk_size = cs.chunk_size
                \/ /\ cs'.chunks_completed = cs.chunks_completed
                   /\ cs'.chunk_size < cs.chunk_size
                   /\ cs'.chunk_size >= MIN_CHUNK_SIZE]_vars
    /\ (cs.pc = "loop") ~> (cs.pc = "done")

(* a chunked sell has ended although the ledger settled none of its chunks:
   the token balance is what it was and every chunk asked for was sent *)
C26_Witness ==
    /\ cs.pc = "done"
    /\ ~cs.ledger_settles
    /\ cs.outcome = "none"
    /\ wallet_tokens[cs.token] = QuoteOutAmount
    /\ 2 * cs.chunks_completed + 2 >= DUST_REDUCTION_FACTOR


(* ------------------------------------------------------------------ *)
(* execute_sniper_buy, one step per attempt of its retry loop           *)
(* ------------------------------------------------------------------ *)
(* what one attempt is given: whether the quote request answers, whether
   validate_quote_for_sniper accepts the quote, whether the quote is older
   than QUOTE_FRESHNESS_MS, whether get_swap_transaction and
   sign_transaction deliver, what send_transaction returns, and whether a
   call of the attempt raises *)
BuyAttemptInput(quoted, valid, stale, swap_tx, signed, send, raises) ==
    [quoted |-> quoted, valid |-> valid, stale |-> stale, swap_tx |-> swap_tx,
     signed |-> signed, send |-> send, raises |-> raises]

SendAnswers == {"tx_id", "error", "no_tx_id"}

BuyAttemptInputs ==
    {BuyAttemptInput(FALSE, FALSE, FALSE, FALSE, FALSE, "error", TRUE),
     BuyAttemptInput(FALSE, FALSE, FALSE, FALSE, FALSE, "error", FALSE),
     BuyAttemptInput(TRUE, FALSE, FALSE, FALSE, FALSE, "error", FALSE)}
    \cup {BuyAttemptInput(TRUE, TRUE, st, FALSE, FALSE, "error", FALSE) :
             st \in BOOLEAN}
    \cup {BuyAttemptInput(TRUE, TRUE, st, TRUE, FALSE, "error", FALSE) :
             st \in BOOLEAN}
    \cup {BuyAttemptInput(TRUE, TRUE, st, TRUE, TRUE, send, FALSE) :
             st \in BOOLEAN, send \in SendAnswers}

(* the body of the loop on one attempt's input: the branch it leaves by *)
BuyAttemptOutcome(in, attempt) ==
    IF in.raises THEN "exception"
    ELSE IF ~in.quoted THEN "quote_fail"
    ELSE IF ~in.valid THEN "invalid_quote"
    ELSE IF in.stale /\ MoreAttempts(attempt) THEN "stale_quote"
    ELSE IF ~in.swap_tx THEN "no_swap_tx"
    ELSE IF ~in.signed THEN "sign_fail"
    ELSE IF in.send = "error" THEN "send_error"
    ELSE IF in.send = "no_tx_id" THEN "no_tx_id"
    ELSE "ok"

(* the attempt got as far as wallet.send_transaction *)
ReachedSend(kind) == kind \in {"ok", "send_error", "no_tx_id"}

(* TradeManager._calculate_spendable_sol *)
CalculateSpendableSol_NoResidual(sol_balance) ==
    Max(0, sol_balance - FEE_BUFFER_SOL)

CalculateSpendableSol(sol_balance) ==
    Max(0, sol_balance - FEE_BUFFER_SOL - MIN_RESIDUAL_SOL)

(* the sizing of execute_sniper_buy on the native balance and the token
   balance it reads and on the planned size usd_to_sol(BUY_AMOUNT_USD) *)
BuyPreflight(sol_balance, planned_sol, token_balance) ==
    LET spendable == CalculateSpendableSol(sol_balance)
        effective_spendable == IF token_balance = 0
                               THEN spendable - ATA_RENT_SOL
                               ELSE spendable
        sol_amount == Min(planned_sol, effective_spendable)
    IN IF spendable <= 0
       THEN [ok |-> FALSE, error |-> "insufficient_sol", sol_amount |-> 0]
       ELSE IF sol_amount < MIN_BUY_SIZE_SOL
       THEN [ok |-> FALSE, error |-> "too_small", sol_amount |-> 0]
       ELSE [ok |-> TRUE, error |-> "none", sol_amount |-> sol_amount]

(* the wallet's native balance at a buy and the planned size of a buy at
   the native asset's price *)
SolBalances == {15, 16, 26, 27, 100}
PlannedSols == {8, 50}

(* the checks of execute_sniper_buy before its loop *)
BuyEntry(m, t, funds_ok) ==
    WithGate(m,
      IF HasPosition(m, t)
      THEN Returned(m, "already_have_position", 0, 0)
      ELSE IF ~funds_ok
      THEN Returned(m, "insufficient_sol", 0, 0)
      ELSE Returned(m, "loop", 0, 0))

BuyFailures(cb) == Len(cb.failures["buy"])

(* the attempts whose request to the quote service fails inside
   JupiterAPI._make_request, which records an API failure on the spot *)
ApiFailing(kind) == kind \in {"quote_fail", "no_swap_tx"}

(* the breaker while the loop runs: the breaker of the call's entry with the
   API failures of the attempts made so far *)
RECURSIVE BreakerDuring(_, _, _)
BreakerDuring(cb, outs, i) ==
    IF i > Len(outs)
    THEN cb
    ELSE BreakerDuring(IF ApiFailing(outs[i])
                       THEN RecordFailure(cb, "api", now)[1]
                       ELSE cb,
                       outs, i + 1)

(* is_paused with the pause not yet expired *)
PausedAt(cb) == cb.is_paused /\ now - cb.pause_start_time <= PauseDuration

SBInit ==
    /\ now = 0
    /\ BreakerConstructed
    /\ ClientConstructed
    /\ NoEvaluation
    /\ ManagerConstructed

SBIdle == sb.pc \in {"idle", "done"}

(* the call up to the loop, on the wallet's native balance, the planned
   size and whether the two balance reads answer *)
SBCall(t, td, sol_balance, planned_sol, sol_read_ok, token_read_ok) ==
    /\ SBIdle
    /\ TotalFailures(circuit_breaker) < MaxTradeFailures
    /\ Len(tx_status) < MaxPositions
    /\ Len(trade_history) < MaxHistory
    /\ LET pre == BuyPreflight(SolBalanceRead(sol_balance, sol_read_ok),
                               planned_sol,
                               TokenBalanceRead(Manager, t, token_read_ok))
           e == BuyEntry(Manager, t, pre.ok)
           called == [NoBuyAttempt EXCEPT
                        !.token = t, !.td = td,
                        !.buy_failures_at_call = BuyFailures(circuit_breaker),
                        !.sol_balance = sol_balance,
                        !.planned_sol = planned_sol,
                        !.token_balance = wallet_tokens[t],
                        !.sol_amount = IF e.result = "loop"
                                       THEN pre.sol_amount
                                       ELSE 0]
       IN /\ sb' = IF e.result = "loop"
                   THEN [called EXCEPT !.pc = "loop"]
                   ELSE [called EXCEPT !.pc = "done", !.result = e.result]
          /\ circuit_breaker' = e.m.cb
          /\ last' = IF e.result = "loop"
                     THEN NoOp
                     ELSE Called("execute_sniper_buy", t, e.gate, e.m.alerts)
    /\ UNCHANGED <<now, request_cache, rr, sr, cs, bot, sspState, tmState,
                   ledgerState>>

(* one iteration of the loop; the last one goes on to the end of the call *)
SBAttempt(in) ==
    /\ sb.pc = "loop"
    /\ LET kind == BuyAttemptOutcome(in, sb.attempt)
           outs == Append(sb.outs, kind)
           tried == [sb EXCEPT
                       !.outs = outs,
                       !.slippage = Append(@, Slippage(sb.attempt)),
                       !.submits = IF ReachedSend(kind) THEN @ + 1 ELSE @,
                       !.accepted = IF kind = "ok" THEN @ + 1 ELSE @,
                       !.stale_sent = @ \/ (in.stale /\ ReachedSend(kind)),
                       !.sent_paused =
                           @ \/ /\ ReachedSend(kind)
                                /\ PausedAt(BreakerDuring(circuit_breaker,
                                                          sb.outs, 1))]
       IN IF kind # "ok" /\ MoreAttempts(sb.attempt)
          THEN /\ sb' = [tried EXCEPT !.attempt = @ + 1]
               /\ UNCHANGED <<circuit_breaker, last, active_positions,
                              trade_history, tx_status>>
          ELSE LET r == ExecuteSniperBuyOp(Manager, sb.token, sb.td, TRUE,
                                           outs, Len(tx_status) + 1)
               IN /\ sb' = [tried EXCEPT !.pc = "done", !.result = r.result]
                  /\ active_positions' = r.m.active
                  /\ trade_history' = r.m.history
                  /\ circuit_breaker' = r.m.cb
                  /\ last' = Called("execute_sniper_buy", sb.token, r.gate,
                                    r.m.alerts)
                  /\ tx_status' =
                       IF r.result = "success"
                       THEN Append(tx_status,
                                   [token |-> sb.token, status |-> "pending"])
                       ELSE tx_status
    /\ UNCHANGED <<now, request_cache, rr, sr, cs, bot, sspState, sell_queue,
                   wallet_tokens>>

SBNext ==
    \/ \E t \in Tokens, td \in TokenData, sol_balance \in SolBalances,
          planned_sol \in PlannedSols, sol_read_ok \in BOOLEAN,
          token_read_ok \in BOOLEAN :
          SBCall(t, td, sol_balance, planned_sol, sol_read_ok, token_read_ok)
    \/ \E in \in BuyAttemptInputs : SBAttempt(in)
    \/ \E tx_id \in 1..Len(tx_status), outcome \in {"confirmed", "failed"} :
          SBIdle /\ LedgerSettle(tx_id, outcome, QuoteOutAmount)
    \/ \E rpc \in ForActive({"ok", "status_error"}, "ok") :
          SBIdle /\ ConfirmPending(rpc)

SpecSB == SBInit /\ [][SBNext]_vars

(* the loop is straight-line code of one thread whose calls carry
   timeouts: an attempt that can run does run *)
SpecSBLive == SpecSB /\ WF_vars(\E in \in BuyAttemptInputs : SBAttempt(in))

(* the results execute_sniper_buy returns when the last attempt of its loop
   fails *)
ExhaustedBuyResults ==
    {"no_quote", "invalid_quote", "no_swap_tx", "sign_fail", "send_error",
     "no_tx_id", "exception"}

(* C28: every buy that fails after exhausting its retry loop, whether the
   last attempt failed on a missing quote, an invalid quote, a transaction
   that could not be built or signed, a submission error, a missing
   transaction id or an unexpected exception, records one buy failure in
   the circuit breaker. *)
C28_ExhaustedBuyRecordsFailure ==
    sb.pc = "done" /\ sb.result \in ExhaustedBuyResults
        => BuyFailures(circuit_breaker) = sb.buy_failures_at_call + 1

(* C29: one call of execute_sniper_buy always terminates, makes at most
   MAX_RETRIES submission attempts and stops at the first submission that is
   accepted, so that a call never has more than one accepted buy
   transaction; the slippage of attempt k is min(base + k*step, cap) and
   does not decrease with k. *)
C29_BuyLoopBounded ==
    /\ [](/\ sb.attempt < MAX_RETRIES
          /\ Len(sb.outs) <= MAX_RETRIES
          /\ sb.submits <= Len(sb.outs)
          /\ sb.accepted <= 1
          /\ sb.accepted = 1
               => /\ sb.pc = "done"
                  /\ sb.result = "success"
                  /\ sb.outs[Len(sb.outs)] = "ok"
                  /\ \A k \in 1..(Len(sb.outs) - 1) : sb.outs[k] # "ok"
          /\ Len(sb.slippage) = Len(sb.outs)
          /\ \A k \in 1..Len(sb.slippage) :
                /\ sb.slippage[k] <= MAX_SLIPPAGE_BPS
                /\ sb.slippage[k]
                     <= BASE_SLIPPAGE_BPS + (k - 1) * SLIPPAGE_STEP_BPS
                /\ sb.slippage[k] \in
                     {MAX_SLIPPAGE_BPS,
                      BASE_SLIPPAGE_BPS + (k - 1) * SLIPPAGE_STEP_BPS}
                /\ k > 1 => sb.slippage[k - 1] <= sb.slippage[k])
    /\ (sb.pc = "loop") ~> (sb.pc = "done")

C29_Witness ==
    /\ sb.pc = "done"
    /\ sb.accepted = 1
    /\ Len(sb.outs) = MAX_RETRIES
    /\ sb.submits = MAX_RETRIES
    /\ sb.slippage[MAX_RETRIES] = MAX_SLIPPAGE_BPS
    /\ sb.slippage[MAX_RETRIES]
         < BASE_SLIPPAGE_BPS + (MAX_RETRIES - 1) * SLIPPAGE_STEP_BPS

(* C30: a buy transaction is never built and submitted from a quote older
   than the freshness ceiling: on every attempt, the last one included, a
   stale quote leads to a fresh quote being fetched or to the buy
   failing. *)
C30_NoStaleQuoteSubmitted == ~sb.stale_sent

(* the size a buy may have at most on the wallet's true balances *)
SpendableFor(b) ==
    b.sol_balance - FEE_BUFFER_SOL - MIN_RESIDUAL_SOL
        - (IF b.token_balance = 0 THEN ATA_RENT_SOL ELSE 0)

(* C31: every position created by a buy has a native-asset amount of at most
   balance - fee_buffer - min_residual, less the receiving-account rent when
   the wallet holds none of the token, and of at least the minimum viable
   buy size; when the capped amount is below that minimum, or nothing is
   spendable, the buy is rejected before any quote is requested. *)
C31_BuySizeWithinSpendable ==
    /\ sb.result = "success"
         => /\ sb.sol_amount <= SpendableFor(sb)
            /\ sb.sol_amount <= sb.planned_sol
            /\ sb.sol_amount >= MIN_BUY_SIZE_SOL
    /\ (/\ sb.pc # "idle"
        /\ sb.result \notin {"paused", "TypeError", "already_have_position"}
        /\ \/ sb.sol_balance - FEE_BUFFER_SOL - MIN_RESIDUAL_SOL <= 0
           \/ Min(sb.planned_sol, SpendableFor(sb)) < MIN_BUY_SIZE_SOL)
         => /\ sb.pc = "done"
            /\ sb.result = "insufficient_sol"
            /\ sb.outs = << >>
            /\ sb.submits = 0

(* a buy was sized down to what is spendable after the rent, and a buy by a
   wallet that holds the token was made without reserving the rent *)
C31_Witness ==
    /\ sb.result = "success"
    /\ sb.token_balance > 0
    /\ sb.sol_amount = sb.sol_balance - FEE_BUFFER_SOL - MIN_RESIDUAL_SOL
    /\ sb.sol_amount < sb.planned_sol

(* ------------------------------------------------------------------ *)
(* main.py: the control loop of SolanaSniper                           *)
(* ------------------------------------------------------------------ *)
PositionLimit == 5

(* "if active_count >= 5: return" *)
LimitReached_Above(active_count) == active_count > PositionLimit

LimitReached(active_count) == active_count >= PositionLimit

(* the keys of the active map *)
BotHeld == {c \in Candidates : bot.active[c] # "none"}

MainInit ==
    /\ now = 0
    /\ BreakerConstructed
    /\ ClientConstructed
    /\ NoEvaluation
    /\ ManagerConstructed

(* SolanaSniper.run up to its loop *)
MainRun ==
    /\ ~bot.running /\ ~bot.exited
    /\ bot' = [bot EXCEPT !.running = TRUE]
    /\ UNCHANGED <<now, cbState, request_cache, rr, sr, cs, sb, sspState,
                   tmState, ledgerState>>

(* SolanaSniper.execute_buy for a candidate with a buy signal; bought is
   whether execute_sniper_buy returns success *)
MainExecuteBuy(c, bought) ==
    /\ bot.running
    /\ bot' = IF bot.active[c] # "none"
              THEN bot
              ELSE IF LimitReached(Cardinality(BotHeld))
              THEN bot
              ELSE IF bought
              THEN [bot EXCEPT !.active[c] = "pending"]
              ELSE bot
    /\ UNCHANGED <<now, cbState, request_cache, rr, sr, cs, sb, sspState,
                   tmState, ledgerState>>

(* what one monitoring cycle does to a position: nothing, the next step of
   its life (a pending buy is confirmed), or its removal (failed buy, sell) *)
Fates == {"keep", "advance", "drop"}

(* SolanaSniper.monitor_positions *)
MainMonitor(fate) ==
    /\ bot.running
    /\ bot' = [bot EXCEPT !.active =
                 [c \in Candidates |->
                    IF fate[c] = "drop"
                    THEN "none"
                    ELSE IF fate[c] = "advance" /\ bot.active[c] = "pending"
                    THEN "open"
                    ELSE bot.active[c]]]
    /\ UNCHANGED <<now, cbState, request_cache, rr, sr, cs, sb, sspState,
                   tmState, ledgerState>>

(* SolanaSniper.stop, called by the SIGINT handler and by the finally
   clause of run: it reports and exits; sold_at_stop holds the positions
   for which it calls a sell *)
MainStop ==
    /\ ~bot.exited
    /\ bot' = IF ~bot.running
              THEN bot
              ELSE [bot EXCEPT !.running = FALSE, !.exited = TRUE,
                               !.held_at_stop = BotHeld,
                               !.sold_at_stop = {}]
    /\ UNCHANGED <<now, cbState, request_cache, rr, sr, cs, sb, sspState,
                   tmState, ledgerState>>

MainNext ==
    \/ MainRun
    \/ \E c \in Candidates, bought \in BOOLEAN : MainExecuteBuy(c, bought)
    \/ \E fate \in [Candidates -> Fates] :
          /\ \A c \in Candidates : bot.active[c] = "none" => fate[c] = "keep"
          /\ MainMonitor(fate)
    \/ MainStop

SpecMain == MainInit /\ [][MainNext]_vars

(* C32: under the control loop (scan and buy, confirm, monitor, sell,
   repeated) the number of positions in the active map never exceeds the
   maximum of 5. *)
C32_PositionLimit == Cardinality(BotHeld) <= PositionLimit

(* the limit is reached while a further candidate is not held *)
C32_Witness ==
    /\ bot.running
    /\ Cardinality(BotHeld) = PositionLimit
    /\ \E c \in Candidates : bot.active[c] = "none"

(* C34: when the process receives a termination signal, or the main loop
   ends, the shutdown handler attempts a sell for every position in the
   active map before the process exits. *)
C34_ShutdownSellsAll == bot.exited => bot.held_at_stop \subseteq bot.sold_at_stop

(* C33: the Time-Based strategy signals a full exit whenever the position
   has been held more than 5 minutes with pnl at or below -5%, or more than
   15 minutes with pnl at or below -2%, and whenever the holding time
   exceeds the maximum hold time; a take-profit at the fixed target is
   signalled regardless of holding time. *)
C33_TimeBasedTightening ==
    LET pos == ssp_in.position
        e == pos.entry_price
        cur == ssp_in.price
    IN /\ ssp_out.done
       /\ pos.exit_strategy = "time_based"
       /\ e > 0
       /\ cur > 0
       /\ \/ ssp_in.held > 5 /\ PnlAtMost(e, cur, -5)
          \/ ssp_in.held > 15 /\ PnlAtMost(e, cur, -2)
          \/ ssp_in.held > 30
          \/ PnlAtLeast(e, cur, TARGET_PROFIT)
       => ssp_out.strategy.exit /\ ssp_out.strategy.ratio = 100

(* ------------------------------------------------------------------ *)
(* TradeManager.monitor_positions under main.py, one step per sell     *)
(* ------------------------------------------------------------------ *)
MonCandidates == {1, 2}

(* the candidates of a set in the order of the active map's keys *)
RECURSIVE InKeyOrder(_, _)
InKeyOrder(set, c) ==
    IF c > MaxCandidates
    THEN << >>
    ELSE (IF c \in set THEN <<c>> ELSE << >>) \o InKeyOrder(set, c + 1)

(* the cycle up to its sells: confirm_pending_transactions opens the
   pending positions in confirmed, the evaluation loop decides an exit for
   the open positions in exits *)
MonCycleStart(confirmed, exits) ==
    /\ bot.running
    /\ bot.cycle.pc = "idle"
    /\ LET active == [c \in Candidates |->
                        IF c \in confirmed /\ bot.active[c] = "pending"
                        THEN "open"
                        ELSE bot.active[c]]
           open == {c \in Candidates : active[c] = "open"}
           queue == InKeyOrder(open \cap exits, 1)
       IN bot' = [bot EXCEPT
                    !.active = active,
                    !.cycle = [pc |-> IF queue = << >> THEN "idle" ELSE "sells",
                               queue |-> queue,
                               open_at_start |-> open,
                               evaluated |-> open,
                               decided |-> open \cap exits,
                               attempted |-> {},
                               raised |-> FALSE]]
    /\ UNCHANGED <<now, cbState, request_cache, rr, sr, cs, sb, sspState,
                   tmState, ledgerState>>

(* the next sell of the cycle: execute_sniper_sell or execute_partial_sell
   asks the breaker first; the TypeError of an expired pause leaves
   TradeManager.monitor_positions and is caught by
   SolanaSniper.monitor_positions, which ends the cycle *)
MonSell(sold) ==
    /\ bot.cycle.pc = "sells"
    /\ LET c == Head(bot.cycle.queue)
           rest == Tail(bot.cycle.queue)
           gate == CheckIfPaused(circuit_breaker, now)
           tried == [bot.cycle EXCEPT
                       !.attempted = @ \cup {c},
                       !.queue = rest,
                       !.pc = IF rest = << >> THEN "idle" ELSE "sells"]
       IN IF gate[2] = "TypeError"
          THEN /\ bot' = [bot EXCEPT
                            !.cycle = [tried EXCEPT !.queue = << >>,
                                                    !.pc = "idle",
                                                    !.raised = TRUE]]
               /\ circuit_breaker' = gate[1]
               /\ last' = Called("execute_sniper_sell", "none", "TypeError", {})
          ELSE IF gate[2] = "True"
          THEN /\ bot' = [bot EXCEPT !.cycle = tried]
               /\ circuit_breaker' = gate[1]
               /\ last' = Called("execute_sniper_sell", "none", "True", {})
          ELSE LET r == IF sold
                        THEN <<gate[1], {}>>
                        ELSE RecordFailure(gate[1], "sell", now)
               IN /\ bot' = [bot EXCEPT !.cycle = tried,
                                        !.active[c] = "none"]
                  /\ circuit_breaker' = r[1]
                  /\ last' = Called("execute_sniper_sell", "none", "False", r[2])
    /\ UNCHANGED <<now, request_cache, rr, sr, cs, sb, sspState, tmState,
                   ledgerState>>

MonNext ==
    \/ MainRun
    \/ \E c \in MonCandidates, bought \in BOOLEAN :
          bot.cycle.pc = "idle" /\ MainExecuteBuy(c, bought)
    \/ \E confirmed \in SUBSET MonCandidates, exits \in SUBSET MonCandidates :
          MonCycleStart(confirmed, exits)
    \/ \E sold \in BOOLEAN :
          /\ ~sold => TotalFailures(circuit_breaker) < MaxFailures
          /\ MonSell(sold)
    \/ Tick

SpecMon == MainInit /\ [][MonNext]_vars

(* C35: an unexpected error raised while confirming, evaluating or selling
   one position does not stop the monitoring cycle for the others: every
   other open or closing position is still evaluated in that cycle, and
   every other position for which an exit was decided still has its sell
   attempted. *)
C35_CycleSurvivesError ==
    bot.cycle.pc = "idle"
        => /\ bot.cycle.open_at_start \subseteq bot.cycle.evaluated
           /\ bot.cycle.decided \subseteq bot.cycle.attempted

(* ------------------------------------------------------------------ *)
(* Repeated monitoring cycles with price data and an open breaker      *)
(* ------------------------------------------------------------------ *)
PricedReadings == {Reading(125, 60000, 60000), Reading(85, 60000, 60000)}
OkScripts ==
    {s \in SellScripts :
        /\ \A i \in 1..Len(s.outs) : s.outs[i] = "ok"
        /\ \A i \in 1..Len(s.couts) : s.couts[i] = "ok"}

PricedCycle ==
    \E rpc \in ForActive({"ok"}, "ok"),
       rd \in ForActive(PricedReadings, Reading(125, 60000, 60000)) :
        MonitorPositions(rpc, rd)

CycleSell == \E s \in OkScripts : QueuedSell(s.outs, s.couts, TRUE)

CloseNext ==
    \/ \E t \in Tokens, td \in GateTokenData :
          ExecuteSniperBuy(t, td, TRUE, <<"ok">>)
    \/ \E tx_id \in 1..Len(tx_status) :
          LedgerSettle(tx_id, "confirmed", QuoteOutAmount)
    \/ \E t \in Tokens : SetPositionStrategy(t, "scaled")
    \/ PricedCycle
    \/ CycleSell

(* the cycles of main.run come again and again, and the sells a cycle
   decided are made in that cycle *)
SpecClose ==
    /\ Init /\ [][CloseNext]_vars
    /\ WF_vars(PricedCycle)
    /\ WF_vars(CycleSell)

(* C36: under repeated monitoring cycles with price data available and the
   circuit breaker not paused, every position that has reached status
   closing eventually becomes closed or failed and is removed from the
   active-position map; it does not stay in the map forever. *)
C36_ClosingEventuallyRemoved ==
    \A t \in Tokens :
        (active_positions[t] # NoPosition
            /\ active_positions[t].status = "closing")
          ~> \/ active_positions[t] = NoPosition
             \/ circuit_breaker.is_paused

(* C37: a position is finalized as closed (and removed from the active map)
   only if, during that sell operation, at least one sell transaction for
   it was accepted for submission by the ledger; a sell operation in which
   nothing was submitted never records a still-held position as closed. *)
C37_ClosedOnlyAfterAcceptedSell ==
    cs.pc = "done" /\ active_positions[cs.token] = NoPosition
        => cs.chunks_completed >= 1

(* C38: no buy or sell transaction is submitted to the ledger at a moment
   when the circuit breaker is paused and the pause has not expired,
   including when the breaker trips while a buy or sell retry loop is
   already running (for example from data-source failures recorded by the
   quote client during that loop). *)
C38_NoSubmissionWhilePaused == ~sb.sent_paused


(* ------------------------------------------------------------------ *)
(* A position sold tier by tier while its price rises                  *)
(* ------------------------------------------------------------------ *)
RisingReadings ==
    {Reading(125, 60000, 60000), Reading(155, 60000, 60000),
     Reading(225, 60000, 60000)}

TiersNext ==
    \/ \E t \in Tokens, td \in GateTokenData :
          ExecuteSniperBuy(t, td, TRUE, <<"ok">>)
    \/ \E tx_id \in 1..Len(tx_status) :
          LedgerSettle(tx_id, "confirmed", QuoteOutAmount)
    \/ \E t \in Tokens : SetPositionStrategy(t, "scaled")
    \/ \E rpc \in ForActive({"ok"}, "ok"),
          rd \in ForActive(RisingReadings, Reading(125, 60000, 60000)) :
          MonitorPositions(rpc, rd)
    \/ CycleSell

SpecTiers == Init /\ [][TiersNext]_vars

(* what the dust factor and the rounding of the partial sells may leave of
   a quantity *)
DustAllowance(quantity) ==
    quantity - DustReduced(quantity) + Len(ExitLevels)

(* C39: the token bookkeeping of a position agrees with its sold ratio:
   after any sequence of successful partial sells decided by the
   scaled-exit tiers, remaining_tokens equals the quantity received at
   confirmation times (1 - total_sold_ratio) up to the dust factor, and
   remaining_tokens is at dust level when total_sold_ratio reaches 1.0. *)
C39_RemainingAgreesWithSoldRatio ==
    \A t \in Tokens :
        LET pos == active_positions[t]
            confirmed == QuoteOutAmount
            expected == (confirmed * (100 - pos.total_sold_ratio)) \div 100
        IN (pos # NoPosition /\ pos.status \in {"open", "closing"})
              => /\ Abs(pos.remaining_tokens - expected)
                        <= DustAllowance(confirmed)
                 /\ pos.total_sold_ratio >= 100
                        => pos.remaining_tokens <= DustAllowance(confirmed)

(* C40: under the Trailing Stop strategy, once a position's observed price
   has reached the activation level (pnl at least the adaptive activation
   profit), every later observation whose price is at or below
   highest_price * (1 - adaptive trailing distance) yields a full exit,
   whatever the pnl is at that later observation. *)
C40_TrailingStopAfterActivation ==
    LET pos == ssp_in.position
        e == pos.entry_price
        cur == ssp_in.price
        h == pos.highest_price
        lf == LiquidityFactor(pos.initial_liquidity)
    IN (/\ ssp_out.done
        /\ pos.exit_strategy = "trailing"
        /\ e > 0
        /\ cur > 0
        /\ (h - e) * 1000000 >= 10 * (8000 + 2 * lf) * e
        /\ cur * 1000000 <= h * (1000000 - 5 * (7000 + 3 * lf)))
       => ssp_out.strategy.exit /\ ssp_out.strategy.ratio = 100
====
